---- MODULE Spec2Model ----
(***************************************************************************)
(* Model of the three streaming SAM filters of the repository:             *)
(*   filter_reverse_reads   ("frr")  drops records mapped to the reverse   *)
(*                                   strand (flag bit 16),                 *)
(*   select_transcripts     ("st")   keeps records whose RNAME is in an    *)
(*                                   allow-list,                           *)
(*   filter_ambiguous_genes ("fag")  drops groups that hit several genes.  *)
(* A line is a sequence of one-character strings, so that find, rfind,     *)
(* substr, stoull, to_string and the tab splitting of the rewriter are     *)
(* computed on the text as the code computes them.  Positions are 0-based  *)
(* as in C++.                                                              *)
(***************************************************************************)
EXTENDS Integers, Sequences, FiniteSets, TLC

----------------------------------------------------------------------------
(* std::string primitives *)

\* std::string::npos, the "not found" result of find and rfind.
NPOS == -1

TAB == "\t"

Min(a, b) == IF a < b THEN a ELSE b

\* line.find(c, from): position of the first character c at or after from.
RECURSIVE find(_, _, _)
find(s, c, from) ==
  IF from >= Len(s) THEN NPOS
  ELSE IF s[from + 1] = c THEN from
  ELSE find(s, c, from + 1)

\* pat occurs in s at position p.
OccursAt(s, pat, p) ==
  p + Len(pat) <= Len(s) /\ SubSeq(s, p + 1, p + Len(pat)) = pat

\* line.find(pat): position of the first occurrence of the string pat.
RECURSIVE findStrFrom(_, _, _)
findStrFrom(s, pat, p) ==
  IF p + Len(pat) > Len(s) THEN NPOS
  ELSE IF OccursAt(s, pat, p) THEN p
  ELSE findStrFrom(s, pat, p + 1)

findStr(s, pat) == findStrFrom(s, pat, 0)

\* line.rfind(pat): position of the last occurrence of the string pat.
RECURSIVE rfindStrFrom(_, _, _)
rfindStrFrom(s, pat, p) ==
  IF p < 0 THEN NPOS
  ELSE IF OccursAt(s, pat, p) THEN p
  ELSE rfindStrFrom(s, pat, p - 1)

rfindStr(s, pat) == rfindStrFrom(s, pat, Len(s) - Len(pat))

\* part.rfind(pat, 0) == 0: the string starts with pat.
StartsWith(s, pat) ==
  Len(pat) <= Len(s) /\ SubSeq(s, 1, Len(pat)) = pat

\* line.substr(pos, n).
substr(s, pos, n) == SubSeq(s, pos + 1, Min(pos + n, Len(s)))

\* line.substr(pos).
substrFrom(s, pos) == SubSeq(s, pos + 1, Len(s))

Digits == <<"0", "1", "2", "3", "4", "5", "6", "7", "8", "9">>

IsDigit(c) == c \in {"0", "1", "2", "3", "4", "5", "6", "7", "8", "9"}

DigitVal(c) == (CHOOSE d \in 1..10 : Digits[d] = c) - 1

\* Length of the longest run of decimal digits of s that starts after its
\* first n characters, plus n.
RECURSIVE DigitRun(_, _)
DigitRun(s, n) ==
  IF n < Len(s) /\ IsDigit(s[n + 1]) THEN DigitRun(s, n + 1) ELSE n

\* Length of the longest prefix of s made of decimal digits.
DigitPrefix(s) == DigitRun(s, 0)

RECURSIVE DecVal(_)
DecVal(s) ==
  IF s = <<>> THEN 0 ELSE 10 * DecVal(SubSeq(s, 1, Len(s) - 1)) + DigitVal(s[Len(s)])

\* std::stoull throws std::invalid_argument when s starts with no number;
\* nothing catches it, so the program is terminated.
stoullThrows(s) == DigitPrefix(s) = 0

\* std::stoull(s): the value of the leading decimal number, whatever follows
\* it.  (The lines of the model hold no sign and no leading white space.)
stoull(s) == DecVal(SubSeq(s, 1, DigitPrefix(s)))

\* std::to_string(n) of an unsigned number.
RECURSIVE to_string(_)
to_string(n) ==
  IF n < 10 THEN <<Digits[n + 1]>> ELSE to_string(n \div 10) \o <<Digits[(n % 10) + 1]>>

\* Bit b (a power of two) of the unsigned number n.
BitSet(n, b) == (n \div b) % 2 = 1

\* n ^ b for a power of two b.
XorBit(n, b) == IF BitSet(n, b) THEN n - b ELSE n + b

\* The fields of s between its tabs, the empty ones included.
RECURSIVE SplitTab(_)
SplitAt(s, p) ==
  IF p = NPOS THEN <<s>>
  ELSE <<substr(s, 0, p)>> \o SplitTab(substrFrom(s, p + 1))

SplitTab(s) == SplitAt(s, find(s, TAB, 0))

\* while (std::getline(parts, part, '\t')): the parts the loop of the rewriter
\* sees.  The stream is at its end after the last tab, so an empty last field
\* yields no part (and an empty string yields none).
DropEmptyLast(f) == IF f[Len(f)] = <<>> THEN SubSeq(f, 1, Len(f) - 1) ELSE f

GetlineParts(s) == DropEmptyLast(SplitTab(s))

\* output << part, with a tab before every part but the first.
RECURSIVE JoinTab(_)
JoinTab(f) ==
  IF f = <<>> THEN <<>>
  ELSE IF Len(f) = 1 THEN f[1]
  ELSE JoinTab(SubSeq(f, 1, Len(f) - 1)) \o <<TAB>> \o f[Len(f)]

----------------------------------------------------------------------------
(* The record functions of the three tools *)

\* "\tNH:i:", the text main searches to find the multiplicity of a read.
NHPat == <<TAB, "N", "H", ":", "i", ":">>

\* "NH:i:" and "HI:i:", the prefixes of the parts the rewriter replaces.
NHPrefix == <<"N", "H", ":", "i", ":">>

HIPrefix == <<"H", "I", ":", "i", ":">>

\* The line has the two tabs that delimit its FLAG field.
HasFlag(line) ==
  find(line, TAB, 0) # NPOS /\ find(line, TAB, find(line, TAB, 0) + 1) # NPOS

\* The text of the FLAG field of a line that has one.
FlagText(line) ==
  LET from == find(line, TAB, 0) + 1
  IN  substr(line, from, find(line, TAB, from) - from)

\* check_flag throws (std::stoull) when the FLAG field starts with no number.
check_flagThrows(line) == HasFlag(line) /\ stoullThrows(FlagText(line))

\* filter_reverse_reads: check_flag(line, flag): TRUE when the flag is not set,
\* FALSE when it is set or the line has too few columns.
check_flag(line, flag) ==
  LET from == find(line, TAB, 0)
  IN  IF from = NPOS THEN FALSE
      ELSE LET to == find(line, TAB, from + 1)
           IN  IF to = NPOS THEN FALSE
               ELSE ~BitSet(stoull(substr(line, from + 1, to - (from + 1))), flag)

\* A faulty strand test that looks at bit 32.
forward_flag_Bit32(line) == check_flag(line, 32)

forward_flag(line) == check_flag(line, 16)

primary_flag(line) == check_flag(line, 256)

\* select_transcripts: primary_flag(line), its own copy of the check of flag 256.
primary_flagST(line) ==
  LET from == find(line, TAB, 0)
  IN  IF from = NPOS THEN FALSE
      ELSE LET to == find(line, TAB, from + 1)
           IN  IF to = NPOS THEN FALSE
               ELSE ~BitSet(stoull(substr(line, from + 1, to - (from + 1))), 256)

\* select_transcripts: extract_transcript_id(line): the third column, or the
\* empty string when the line has fewer than three tabs.
extract_transcript_idST(line) ==
  LET from == find(line, TAB, 0)
  IN  IF from = NPOS THEN <<>>
      ELSE LET to == find(line, TAB, from + 1)
           IN  IF to = NPOS THEN <<>>
               ELSE LET to2 == find(line, TAB, to + 1)
                    IN  IF to2 = NPOS THEN <<>>
                        ELSE substr(line, to + 1, to2 - (to + 1))

\* filter_ambiguous_genes: extract_transcript_id(line): RNAME, or the empty
\* string when the line has fewer than three tabs.
extract_transcript_id(line) ==
  LET t1 == find(line, TAB, 0)
  IN  IF t1 = NPOS THEN <<>>
      ELSE LET t2 == find(line, TAB, t1 + 1)
           IN  IF t2 = NPOS THEN <<>>
               ELSE LET transcript_to == find(line, TAB, t2 + 1)
                    IN  IF transcript_to = NPOS THEN <<>>
                        ELSE substr(line, t2 + 1, transcript_to - (t2 + 1))

\* The text after the last "\tNH:i:" up to the next tab or the end of the line.
CountText(line) ==
  LET c == rfindStr(line, NHPat) + 6
      count_end == find(line, TAB, c)
  IN  IF count_end = NPOS THEN substrFrom(line, c) ELSE substr(line, c, count_end - c)

\* The line has no "\tNH:i:".
MissingNH(line) == rfindStr(line, NHPat) = NPOS

\* count = std::stoull(...): the multiplicity the line declares.
Count(line) == stoull(CountText(line))

\* Count throws (std::stoull) when no number follows the tag.
CountThrows(line) == stoullThrows(CountText(line))

----------------------------------------------------------------------------
(* The rewriter of filter_reverse_reads and select_transcripts *)

\* The position of the n-th tab found by index = line.find('\t', index + 1),
\* starting from index, or NPOS.
RECURSIVE NthTab(_, _, _)
NthTab(line, index, n) ==
  IF n = 0 THEN index
  ELSE LET nxt == find(line, TAB, index + 1)
       IN  IF nxt = NPOS THEN NPOS ELSE NthTab(line, nxt, n - 1)

\* A faulty extraction that has one status, 12, for every line without a
\* CIGAR column.
CigarCode_OneStatus(line) ==
  LET index == NthTab(line, 0, 5)
  IN  IF index = NPOS \/ find(line, TAB, index + 1) = NPOS THEN 12 ELSE 0

\* The status with which the extraction of the CIGAR of one line ends the run
\* (12: fewer than five tabs, 11: no sixth tab), or 0.
CigarCode(line) ==
  LET index == NthTab(line, 0, 5)
  IN  IF index = NPOS THEN 12
      ELSE IF find(line, TAB, index + 1) = NPOS THEN 11 ELSE 0

\* cigars.push_back(group[i].substr(index, index2 - index)).
Cigar(line) ==
  LET index == NthTab(line, 0, 5)
  IN  substr(line, index, find(line, TAB, index + 1) - index)

\* A faulty cast that rounds -10 * log10(1 - 1 / k) to the nearest integer:
\* the integer part m, plus one when (k / (k - 1))^20 >= 10^(2m + 1), decided
\* on q = 10 * (k / (k - 1))^10 rounded down.
Log10Round(k) ==
  LET m == CHOOSE n \in 0..9 :
             /\ (10 ^ n) * ((k - 1) ^ 10) <= k ^ 10
             /\ k ^ 10 < (10 ^ (n + 1)) * ((k - 1) ^ 10)
      q == (10 * (k ^ 10)) \div ((k - 1) ^ 10)
  IN  IF q * q >= 10 ^ (2 * m + 3) THEN m + 1 ELSE m

\* (size_t)(-10 * std::log10(1 - 1.0 / k)) for k > 1, as the integer m with
\* 10^m <= (k / (k - 1))^10 < 10^(m + 1); the quotients are far from a power
\* of ten, so the floating-point result truncates to the same m.
Log10Trunc(k) ==
  CHOOSE m \in 0..9 :
    /\ (10 ^ m) * ((k - 1) ^ 10) <= k ^ 10
    /\ k ^ 10 < (10 ^ (m + 1)) * ((k - 1) ^ 10)

\* The MAPQ of a group of k lines.
MapqValue(k) == IF k <= 1 THEN 255 ELSE Log10Trunc(k)

mapq(k) == to_string(MapqValue(k))

\* A faulty rewriter that leaves the NH part as it was read.
RewritePart_NHKept(part, j, i, primary, k) ==
  IF j = 2 /\ primary = i THEN to_string(XorBit(stoull(part), 256))
  ELSE IF j = 5 THEN mapq(k)
  ELSE IF StartsWith(part, HIPrefix) THEN HIPrefix \o to_string(i + 1)
  ELSE part

\* A faulty rewriter that numbers the HI parts from 0.
RewritePart_HIFromZero(part, j, i, primary, k) ==
  IF j = 2 /\ primary = i THEN to_string(XorBit(stoull(part), 256))
  ELSE IF j = 5 THEN mapq(k)
  ELSE IF StartsWith(part, NHPrefix) THEN NHPrefix \o to_string(k)
  ELSE IF StartsWith(part, HIPrefix) THEN HIPrefix \o to_string(i)
  ELSE part

\* One part of line i (0-based) of a group of k lines, as the loop over the
\* parts rewrites it; j is the 1-based number of the part.
RewritePart(part, j, i, primary, k) ==
  IF j = 2 /\ primary = i THEN to_string(XorBit(stoull(part), 256))
  ELSE IF j = 5 THEN mapq(k)
  ELSE IF StartsWith(part, NHPrefix) THEN NHPrefix \o to_string(k)
  ELSE IF StartsWith(part, HIPrefix) THEN HIPrefix \o to_string(i + 1)
  ELSE part

\* The line written for group[i].
RewriteParts(parts, i, primary, k) ==
  JoinTab([j \in 1..Len(parts) |-> RewritePart(parts[j], j, i, primary, k)])

RewriteLine(line, i, primary, k) == RewriteParts(GetlineParts(line), i, primary, k)

----------------------------------------------------------------------------
(* Inputs *)

\* The size of a run: the lines of its input files, and its pairs of file
\* names after the first, are at most MaxLines together.
MaxLines == 4

\* The runs have at most MaxArgc - 1 arguments.
MaxArgc == 6

Tools == {"frr", "st", "fag"}

\* Reference names and gene names.
IdA == <<"A">>
IdB == <<"B">>
IdC == <<"C">>
IdX == <<"X">>
Gene1 == <<"G", "1">>
Gene2 == <<"G", "2">>

CigarM == <<"3", "M">>
CigarI == <<"2", "M", "1", "I">>

\* An alignment line: the eleven mandatory columns and the NH and HI tags.
Rec(flag, rname, cigar, nh, hi) ==
  JoinTab(<<
    <<"r">>, to_string(flag), rname, <<"7">>, <<"9">>, cigar,
    <<"*">>, <<"0">>, <<"0">>, <<"S">>, <<"Q">>,
    NHPrefix \o to_string(nh), HIPrefix \o to_string(hi)>>)

\* A line of four columns: QNAME, FLAG, RNAME and the NH tag.
ShortRec(flag, rname, nh) ==
  JoinTab(<<<<"r">>, to_string(flag), rname, NHPrefix \o to_string(nh)>>)

\* A line of six columns that ends with its CIGAR and has no tag.
NoTagRec(flag, rname) ==
  JoinTab(<<<<"r">>, to_string(flag), rname, <<"7">>, <<"9">>, CigarM>>)

\* "@HD\tVN:1\tSO:u"
HeaderHD ==
  JoinTab(<<<<"@", "H", "D">>, <<"V", "N", ":", "1">>, <<"S", "O", ":", "u">>>>)

\* "@SQ\tSN:<id>\tLN:5"
HeaderSQ(id) ==
  JoinTab(<<<<"@", "S", "Q">>, <<"S", "N", ":">> \o id, <<"L", "N", ":", "5">>>>)

\* "@SQ\tLN:5"
HeaderSQNoSN == JoinTab(<<<<"@", "S", "Q">>, <<"L", "N", ":", "5">>>>)

EmptyLine == <<>>

\* The lines an input of filter_reverse_reads is made of.
LinesFRR ==
  { Rec(0, IdA, CigarM, 4, 1),     Rec(256, IdA, CigarM, 3, 2),
    Rec(256, IdA, CigarI, 1, 3),   Rec(16, IdA, CigarM, 2, 1),
    Rec(272, IdA, CigarM, 1, 2),   Rec(0, IdA, CigarM, 0, 1),
    ShortRec(256, IdA, 2),         NoTagRec(256, IdA),
    HeaderHD,                      EmptyLine }

\* The lines an input of select_transcripts is made of.
LinesST ==
  { Rec(0, IdA, CigarM, 4, 1),     Rec(256, IdA, CigarM, 3, 2),
    Rec(256, IdA, CigarI, 1, 3),   Rec(0, IdB, CigarM, 2, 1),
    Rec(256, IdB, CigarM, 1, 2),   Rec(0, IdA, CigarM, 0, 1),
    NoTagRec(256, IdA),            HeaderHD,
    HeaderSQ(IdB),                 HeaderSQNoSN,
    EmptyLine }

\* The lines an input of filter_ambiguous_genes is made of.
LinesFAG ==
  { Rec(0, IdA, CigarM, 3, 1),     Rec(256, IdB, CigarM, 1, 2),
    Rec(256, IdC, CigarI, 2, 3),   Rec(256, IdX, CigarM, 2, 2),
    Rec(0, IdX, CigarM, 1, 1),     Rec(0, IdA, CigarM, 0, 1),
    NoTagRec(256, IdA),            HeaderHD,
    EmptyLine }

Lines(t) ==
  CASE t = "frr" -> LinesFRR
    [] t = "st"  -> LinesST
    [] t = "fag" -> LinesFAG

\* An alignment line whose RNEXT and SEQ columns are empty, followed by the
\* columns last.
TabsRec(flag, rname, nh, hi, last) ==
  JoinTab(<<
    <<"r">>, to_string(flag), rname, <<"7">>, <<"9">>, CigarM,
    <<>>, <<"0">>, <<"0">>, <<>>, <<"Q">>,
    NHPrefix \o to_string(nh), HIPrefix \o to_string(hi)>> \o last)

\* Lines with empty columns: the last column of some is the HI tag, of
\* others an empty column (the line ends with a tab).
TabsLines(t) ==
  { TabsRec(256, IdA, 2, 1, <<>>),
    TabsRec(256, IdA, 2, 2, << <<>> >>),
    TabsRec(0, IdA, 3, 1, << <<>> >>),
    TabsRec(IF t = "frr" THEN 272 ELSE 256, IF t = "frr" THEN IdA ELSE IdC,
            2, 2, <<>>) }

\* The allow-lists of select_transcripts (the lines of <transcript_ids>).
AllowLists == {{IdA}, {IdA, IdB}}

\* The transcript => gene mapping of the annotations of filter_ambiguous_genes.
Annotations == (IdA :> Gene1) @@ (IdB :> Gene1) @@ (IdC :> Gene2)

----------------------------------------------------------------------------
(* The rewriter, on a group *)

\* A faulty extraction of the CIGARs that takes a group without lines for a
\* line with too few columns.
CigarsCode_EmptyFails(group) ==
  LET bad == {n \in 1..Len(group) : CigarCode(group[n]) # 0}
  IN  IF group = <<>> THEN 12
      ELSE IF bad = {} THEN 0
      ELSE CigarCode(group[CHOOSE n \in bad : \A m \in bad : n <= m])

\* The status of the first line of the group whose CIGAR cannot be extracted.
RECURSIVE CigarsCode(_)
CigarsCode(group) ==
  IF group = <<>> THEN 0
  ELSE IF CigarCode(Head(group)) # 0 THEN CigarCode(Head(group))
  ELSE CigarsCode(Tail(group))

\* Some cigars[i] differs from cigars[0]: "Not implemented yet" is logged.
CigarsDiffer(group) ==
  \E n \in 2..Len(group) : Cigar(group[n]) # Cigar(group[1])

\* A faulty choice that promotes no line when the primary was left out.
NewPrimary_None(primary) == -1

\* A faulty choice that forgets to reset the index of a kept primary, whose
\* flag is then toggled.
NewPrimary_Same(primary) == IF primary = -1 THEN 0 ELSE primary

\* A faulty choice that promotes the second line kept.
NewPrimary_Second(primary) == IF primary = -1 THEN 1 ELSE -1

\* The primary index after the choice of a primary: 0 when no kept line is a
\* primary, and the "none" value again when one is, so that no flag changes.
NewPrimary(primary) == IF primary = -1 THEN 0 ELSE -1

\* The branch "some alignment was left out": the status (0, 11 or 12), the
\* lines written and whether the CIGAR warning is logged.
Rewrite(group, primary) ==
  LET code == IF primary = -1 THEN CigarsCode(group) ELSE 0
  IN  IF code # 0 THEN [code |-> code, lines |-> <<>>, warn |-> FALSE, rewritten |-> FALSE]
      ELSE [code |-> 0,
            lines |-> [n \in 1..Len(group) |->
                         RewriteLine(group[n], n - 1, NewPrimary(primary), Len(group))],
            warn |-> primary = -1 /\ CigarsDiffer(group),
            rewritten |-> TRUE]

\* A faulty writer that writes the lines of the group last line first.
Verbatim_Reversed(group) ==
  [code |-> 0,
   lines |-> [n \in 1..Len(group) |-> group[Len(group) + 1 - n]],
   warn |-> FALSE, rewritten |-> FALSE]

\* The branch "no alignment left out": the lines of the group as read.
Verbatim(group) ==
  [code |-> 0, lines |-> group, warn |-> FALSE, rewritten |-> FALSE]

----------------------------------------------------------------------------
(* State *)

VARIABLES
  tool,            \* the program that runs
  argc,            \* its argument count
  idsFile,         \* select_transcripts: the lines of <transcript_ids>
  transcript_ids,  \* select_transcripts: the allow-list
  transcript_gene, \* filter_ambiguous_genes: transcript_id => gene_id
  pc,              \* "start", "while", "collect", "exit", "terminated"
  status,          \* the exit status, once pc is "exit" or "terminated"
  argi,            \* index of the input file name of the current pair
  input,           \* per opened pair, the lines read from its input so far
  output,          \* per opened pair, the lines of its output file
  count,           \* the multiplicity declared by the first line of the group
  i,               \* the counter of the loop that collects the group
  group,           \* the lines kept of the current group
  primary,         \* index in group of the kept primary alignment, or -1
  modification,    \* filter_reverse_reads: a line of the group was left out
  firstGene,       \* filter_ambiguous_genes: transcript_gene_it->second
  unit,            \* history: the unit (header, line, group) read last
  ranges,          \* region_readcounts: identifier => <<from, to>>
  coefs,           \* region_readcounts: identifier => total read count
  missing,         \* region_readcounts: identifiers reported as missing
  coordinates,     \* transcripts_startstop_positions: id => <<start, stop>>
  transcript,      \* transcripts_startstop_positions: the current Transcript
  gtf              \* transcripts_startstop_positions: lines <GTF_file> may have

\* The variables of region_readcounts and transcripts_startstop_positions,
\* which the filters do not have.
tables == <<ranges, coefs, missing, coordinates, transcript, gtf>>

vars ==
  <<tool, argc, idsFile, transcript_ids, transcript_gene, pc, status, argi,
    input, output, count, i, group, primary, modification, firstGene, unit,
    ranges, coefs, missing, coordinates, transcript, gtf>>

\* The history of a unit: its kind ("none", "empty", "header", "notag",
\* "single", "group"), the multiplicity n it declares, the lines ins read for
\* it, for each of them whether it was kept, the lines outs written for it,
\* the number before of lines in the output file when it began, whether the
\* CIGAR warning was logged, whether the rewriter wrote it, whether it is
\* done and the status code with which it ended the run (0: it did not).
NoUnit ==
  [kind |-> "none", n |-> 0, ins |-> <<>>, kept |-> <<>>, outs |-> <<>>,
   before |-> 0, warn |-> FALSE, rewritten |-> FALSE, done |-> FALSE,
   code |-> 0]

\* The pairs of file names of the invocation.
NPairs == IF tool = "frr" THEN (argc - 1) \div 2 ELSE (argc - 2) \div 2

\* The size of the run so far.
RECURSIVE TotalLen(_)
TotalLen(files) ==
  IF files = <<>> THEN 0 ELSE Len(Head(files)) + TotalLen(Tail(files))

NRead == TotalLen(input) + (NPairs - 1)

Init ==
  /\ tool \in Tools
  /\ argc \in 1..MaxArgc
  /\ idsFile \in (IF tool = "st" THEN AllowLists ELSE {{}})
  /\ transcript_ids = {}
  /\ transcript_gene = <<>>
  /\ pc = "start"
  /\ status = 0
  /\ argi = 0
  /\ input = <<>>
  /\ output = <<>>
  /\ count = 0
  /\ i = 0
  /\ group = <<>>
  /\ primary = -1
  /\ modification = FALSE
  /\ firstGene = <<>>
  /\ unit = NoUnit
  /\ ranges = <<>>
  /\ coefs = <<>>
  /\ missing = {}
  /\ coordinates = <<>>
  /\ transcript = <<>>
  /\ gtf = {}

\* A faulty test of the arguments that answers only the invocation without
\* arguments with the usage text.
Usage_NoArguments == argc = 1

\* The invocation is answered with the usage text.
Usage ==
  CASE tool = "frr" -> argc = 1 \/ (argc % 2) # 1
    [] tool = "fag" -> argc = 1 \/ (argc % 2) # 0
    [] tool = "st"  -> argc < 4 \/ (argc % 2) # 0

\* for (argi; argi < argc; argi += 2) at index a: the pair is opened, or
\* main returns 0.
ForPair(a) ==
  /\ argi' = a
  /\ status' = 0
  /\ IF a < argc
       THEN /\ pc' = "while"
            /\ input' = Append(input, <<>>)
            /\ output' = Append(output, <<>>)
            /\ unit' = NoUnit
       ELSE /\ pc' = "exit"
            /\ UNCHANGED <<input, output, unit>>

\* main up to the first std::getline on an input: the usage text, or the
\* lookup table read from argv[1] and the first pair opened.
Start ==
  /\ pc = "start"
  /\ IF Usage
       THEN /\ pc' = "exit"
            /\ status' = 0
            /\ UNCHANGED <<transcript_ids, transcript_gene, argi, input, output,
                           unit>>
       ELSE /\ transcript_ids' = (IF tool = "st" THEN idsFile ELSE {})
            /\ transcript_gene' = (IF tool = "fag" THEN Annotations ELSE <<>>)
            /\ ForPair(IF tool = "frr" THEN 1 ELSE 2)
  /\ UNCHANGED tables
  /\ UNCHANGED <<tool, argc, idsFile, count, i, group, primary, modification,
                 firstGene>>

----------------------------------------------------------------------------
(* The body of the loop over the lines of one input file *)

\* "\tSN:" and "@SQ\t", the texts select_transcripts searches in a header.
SNPat == <<TAB, "S", "N", ":">>

SQPrefix == <<"@", "S", "Q", TAB>>

\* A faulty select_transcripts that writes every header line.
HeaderST_All(line, ids) == <<line>>

\* A faulty select_transcripts that writes every "@SQ" line that has an SN
\* field, whatever its value.
HeaderST_AnySN(line, ids) ==
  IF StartsWith(line, SQPrefix) /\ findStr(line, SNPat) = NPOS
    THEN <<>> ELSE <<line>>

\* select_transcripts: the lines written for a header line: an "@SQ" line is
\* written when its SN value is in the allow-list, any other header always.
HeaderST(line, ids) ==
  IF StartsWith(line, SQPrefix)
    THEN LET from == findStr(line, SNPat)
         IN  IF from = NPOS THEN <<>>
             ELSE LET to == find(line, TAB, from + 4)
                      sn == IF to = NPOS THEN substrFrom(line, from + 4)
                            ELSE substr(line, from + 4, to - (from + 4))
                  IN  IF sn \in ids THEN <<line>> ELSE <<>>
    ELSE <<line>>

\* The lines written for a header line.
Header(t, line, ids) == IF t = "st" THEN HeaderST(line, ids) ELSE <<line>>

\* What the handling of one line of a group leaves: a status when it ends the
\* run (134: an exception nobody catches), whether the line was kept, and the
\* variables of the group.
Fatal(code) ==
  [fatal |-> code, kept |-> FALSE, group |-> <<>>, primary |-> -1,
   modification |-> FALSE, firstGene |-> <<>>]

\* filter_reverse_reads: a line mapped to the forward strand is pushed to the
\* group (and remembered when it is a primary), any other sets modification.
AddFRR(line, g, pr, m) ==
  IF check_flagThrows(line) THEN Fatal(134)
  ELSE IF forward_flag(line)
    THEN [fatal |-> 0, kept |-> TRUE, group |-> Append(g, line),
          primary |-> IF primary_flag(line) THEN Len(g) ELSE pr,
          modification |-> m, firstGene |-> <<>>]
    ELSE [fatal |-> 0, kept |-> FALSE, group |-> g, primary |-> pr,
          modification |-> TRUE, firstGene |-> <<>>]

\* select_transcripts: a line whose transcript is in the allow-list is pushed
\* to the group (and remembered when it is a primary).
AddST(line, g, pr, ids) ==
  IF extract_transcript_idST(line) \in ids
    THEN IF check_flagThrows(line) THEN Fatal(134)
         ELSE [fatal |-> 0, kept |-> TRUE, group |-> Append(g, line),
               primary |-> IF primary_flagST(line) THEN Len(g) ELSE pr,
               modification |-> FALSE, firstGene |-> <<>>]
    ELSE [fatal |-> 0, kept |-> FALSE, group |-> g, primary |-> pr,
          modification |-> FALSE, firstGene |-> <<>>]

\* A faulty filter_ambiguous_genes that takes an unknown transcript for a
\* transcript of another gene.
AddFAG_UnknownDiffers(line, first, g, fg, genes) ==
  LET transcript_id == extract_transcript_id(line)
      gene == IF transcript_id \in DOMAIN genes THEN genes[transcript_id] ELSE <<>>
  IN  IF first
        THEN [fatal |-> 0, kept |-> TRUE, group |-> <<line>>, primary |-> -1,
              modification |-> FALSE, firstGene |-> gene]
      ELSE IF fg = gene /\ transcript_id \in DOMAIN genes
        THEN [fatal |-> 0, kept |-> TRUE, group |-> Append(g, line),
              primary |-> -1, modification |-> FALSE, firstGene |-> fg]
        ELSE [fatal |-> 0, kept |-> FALSE, group |-> <<>>, primary |-> -1,
              modification |-> FALSE, firstGene |-> fg]

\* filter_ambiguous_genes: the first line of a group ends the run with 6 when
\* its transcript is unknown and starts the group otherwise; a later line ends
\* the run with 7 when its transcript is unknown, is pushed when its gene is
\* the gene of the first line, and clears the group otherwise.
AddFAG(line, first, g, fg, genes) ==
  LET transcript_id == extract_transcript_id(line)
  IN  IF transcript_id \notin DOMAIN genes THEN Fatal(IF first THEN 6 ELSE 7)
      ELSE IF first
        THEN [fatal |-> 0, kept |-> TRUE, group |-> <<line>>, primary |-> -1,
              modification |-> FALSE, firstGene |-> genes[transcript_id]]
      ELSE IF fg = genes[transcript_id]
        THEN [fatal |-> 0, kept |-> TRUE, group |-> Append(g, line),
              primary |-> -1, modification |-> FALSE, firstGene |-> fg]
        ELSE [fatal |-> 0, kept |-> FALSE, group |-> <<>>, primary |-> -1,
              modification |-> FALSE, firstGene |-> fg]

\* The handling of one line of a group by the running tool.
Member(line, first, g, pr, m, fg) ==
  CASE tool = "frr" -> AddFRR(line, g, pr, m)
    [] tool = "st"  -> AddST(line, g, pr, transcript_ids)
    [] tool = "fag" -> AddFAG(line, first, g, fg, transcript_gene)

\* A faulty filter_reverse_reads that rewrites every group.
FinishFRR_Rewrites(g, pr, m) == Rewrite(g, pr)

\* filter_reverse_reads: the group is rewritten when a line was left out.
FinishFRR(g, pr, m) == IF m THEN Rewrite(g, pr) ELSE Verbatim(g)

\* select_transcripts: the group is rewritten when its size is not count.
FinishST(g, pr, c) == IF Len(g) = c THEN Verbatim(g) ELSE Rewrite(g, pr)

\* A faulty filter_ambiguous_genes that writes what is left of a group.
FinishFAG_Partial(g, c) == Verbatim(g)

\* filter_ambiguous_genes: the group is written when its size is count.
FinishFAG(g, c) == IF Len(g) = c THEN Verbatim(g) ELSE Verbatim(<<>>)

\* What follows the loop that collects the group.
Finish(g, pr, m, c) ==
  CASE tool = "frr" -> FinishFRR(g, pr, m)
    [] tool = "st"  -> FinishST(g, pr, c)
    [] tool = "fag" -> FinishFAG(g, c)

\* A faulty singleton path that writes every record.
Single_KeepsAll(line) == <<line>>

\* A singleton (count == 1): the lines written for it.
Single(line) ==
  CASE tool = "frr" -> IF forward_flag(line) THEN <<line>> ELSE <<>>
    [] tool = "st"  ->
         IF extract_transcript_idST(line) \in transcript_ids THEN <<line>> ELSE <<>>
    [] tool = "fag" -> <<line>>

\* The singleton check of filter_reverse_reads throws on a FLAG that is no
\* number.
SingleThrows(line) == tool = "frr" /\ check_flagThrows(line)

----------------------------------------------------------------------------
(* Transitions *)

\* Faulty locals that keep the modification flag of the group before.
NoGroup_KeepsFlag ==
  [group |-> <<>>, primary |-> -1, modification |-> modification,
   firstGene |-> <<>>]

\* The variables of a group outside the block that declares them.
NoGroup ==
  [group |-> <<>>, primary |-> -1, modification |-> FALSE, firstGene |-> <<>>]

\* The output file of the current pair.
Current == output[Len(output)]

\* The next state: the place p, the status st, the lines out appended to the
\* current output, the loop variables c and n, the group variables g and the
\* history u.  When an exception ends the program, the buffer of the output
\* stream is not flushed: any prefix of the lines written may be in the file.
Goto(p, st, out, c, n, g, u) ==
  /\ pc' = p
  /\ status' = st
  /\ IF p = "terminated"
       THEN \E k \in 0..Len(Current) :
              output' = [output EXCEPT ![Len(output)] = SubSeq(@, 1, k)]
       ELSE output' = [output EXCEPT ![Len(output)] = @ \o out]
  /\ count' = c
  /\ i' = n
  /\ group' = g.group
  /\ primary' = g.primary
  /\ modification' = g.modification
  /\ firstGene' = g.firstGene
  /\ unit' = u

\* A faulty end of the run that reports the status and goes on with the next
\* line of the input.
Exit_GoesOn(code, u) ==
  Goto("while", code, <<>>, 0, 0, NoGroup,
       [u EXCEPT !.done = TRUE, !.code = code])

\* The run ends with status code while it handles the unit u.
Exit(code, u) ==
  Goto(IF code = 134 THEN "terminated" ELSE "exit", code, <<>>, 0, 0, NoGroup,
       [u EXCEPT !.done = TRUE, !.code = code])

\* A faulty handling of the line without NH tag that writes the line.
OneLine_Emits(kind, n, line, out) ==
  Goto("while", 0, IF kind = "notag" THEN <<line>> ELSE out, 0, 0, NoGroup,
       [kind |-> kind, n |-> n, ins |-> <<line>>, kept |-> <<out # <<>>>>,
        outs |-> out, before |-> Len(Current), warn |-> FALSE,
        rewritten |-> FALSE, done |-> TRUE, code |-> 0])

\* A unit that is complete after one line, of which the lines out are written.
OneLine(kind, n, line, out) ==
  Goto("while", 0, out, 0, 0, NoGroup,
       [kind |-> kind, n |-> n, ins |-> <<line>>, kept |-> <<out # <<>>>>,
        outs |-> out, before |-> Len(Current), warn |-> FALSE,
        rewritten |-> FALSE, done |-> TRUE, code |-> 0])

\* A faulty test of the collecting loop, i <= count, that reads one line
\* more than the group has.
Proceed_OneMore(r, c, n, u) ==
  IF n <= c
    THEN Goto("collect", 0, <<>>, c, n, r, u)
    ELSE \E f \in {Finish(r.group, r.primary, r.modification, c)} :
           IF f.code # 0 THEN Exit(f.code, u)
           ELSE Goto("while", 0, f.lines, 0, 0, NoGroup,
                     [u EXCEPT !.outs = f.lines, !.warn = f.warn,
                               !.rewritten = f.rewritten, !.done = TRUE])

\* The test i < count of the collecting loop after n lines of the group: the
\* loop goes on, or the group r (the result of Member) is finished.
Proceed(r, c, n, u) ==
  IF n < c
    THEN Goto("collect", 0, <<>>, c, n, r, u)
    ELSE \E f \in {Finish(r.group, r.primary, r.modification, c)} :
           IF f.code # 0 THEN Exit(f.code, u)
           ELSE Goto("while", 0, f.lines, 0, 0, NoGroup,
                     [u EXCEPT !.outs = f.lines, !.warn = f.warn,
                               !.rewritten = f.rewritten, !.done = TRUE])

\* The first line of a group (count != 1).
StartGroup(line, c) ==
  \E r \in {Member(line, TRUE, <<>>, -1, FALSE, <<>>)} :
    \E u \in {[kind |-> "group", n |-> c, ins |-> <<line>>, kept |-> <<r.kept>>,
                outs |-> <<>>, before |-> Len(Current), warn |-> FALSE,
                rewritten |-> FALSE, done |-> FALSE, code |-> 0]} :
      IF r.fatal # 0 THEN Exit(r.fatal, u) ELSE Proceed(r, c, 1, u)

\* An alignment line read by the outer loop.
Alignment(line) ==
  IF MissingNH(line) THEN OneLine("notag", 0, line, <<>>)
  ELSE IF CountThrows(line) \/ (Count(line) = 1 /\ SingleThrows(line))
    THEN Exit(134, [NoUnit EXCEPT !.kind = "single", !.ins = <<line>>,
                                  !.kept = <<FALSE>>, !.before = Len(Current)])
  ELSE IF Count(line) = 1 THEN OneLine("single", 1, line, Single(line))
  ELSE \E c \in {Count(line)} : StartGroup(line, c)

\* while (std::getline(input, line)) fails: the pair is closed, and the next
\* pair is opened or main returns 0.
WhileEof ==
  /\ pc = "while"
  /\ ForPair(argi + 2)
  /\ UNCHANGED tables
  /\ UNCHANGED <<tool, argc, idsFile, transcript_ids, transcript_gene, count,
                 i, group, primary, modification, firstGene>>

\* while (std::getline(input, line)) reads a line: one pass of the loop body,
\* up to the next std::getline.
ReadLine(lines) ==
  /\ pc = "while"
  /\ NRead < MaxLines
  /\ \E line \in lines :
       /\ input' = [input EXCEPT ![Len(input)] = Append(@, line)]
       /\ IF line = <<>> THEN OneLine("empty", 0, line, <<>>)
          ELSE IF line[1] = "@"
            THEN OneLine("header", 0, line, Header(tool, line, transcript_ids))
          ELSE Alignment(line)
  /\ UNCHANGED tables
  /\ UNCHANGED <<tool, argc, idsFile, transcript_ids, transcript_gene, argi>>

WhileLine == ReadLine(Lines(tool))

\* A faulty end of input that writes the lines kept so far before it
\* returns 17.
CollectEof_WritesKept ==
  /\ pc = "collect"
  /\ Goto("exit", 17, group, 0, 0, NoGroup,
          [unit EXCEPT !.done = TRUE, !.code = 17, !.outs = group])
  /\ UNCHANGED tables
  /\ UNCHANGED <<tool, argc, idsFile, transcript_ids, transcript_gene, argi,
                 input>>

\* A faulty end of input in the collecting loop that sets the status and
\* tries to read again.
CollectEof_Retries ==
  /\ pc = "collect"
  /\ status' = 17
  /\ UNCHANGED tables
  /\ UNCHANGED <<tool, argc, idsFile, transcript_ids, transcript_gene, pc,
                 argi, input, output, count, i, group, primary, modification,
                 firstGene, unit>>

\* std::getline(input, line) fails in the collecting loop: return 17.
CollectEof ==
  /\ pc = "collect"
  /\ Exit(17, unit)
  /\ UNCHANGED tables
  /\ UNCHANGED <<tool, argc, idsFile, transcript_ids, transcript_gene, argi,
                 input>>

\* std::getline(input, line) reads the next line of the group: the line is
\* handled, and after the last one the group is written.
ReadMember(lines) ==
  /\ pc = "collect"
  /\ NRead < MaxLines
  /\ \E line \in lines :
       \E r \in {Member(line, FALSE, group, primary, modification, firstGene)} :
         \E u \in {[unit EXCEPT !.ins = Append(@, line),
                                 !.kept = Append(@, r.kept)]} :
           /\ input' = [input EXCEPT ![Len(input)] = Append(@, line)]
           /\ IF r.fatal # 0 THEN Exit(r.fatal, u)
              ELSE Proceed(r, count, i + 1, u)
  /\ UNCHANGED tables
  /\ UNCHANGED <<tool, argc, idsFile, transcript_ids, transcript_gene, argi>>

CollectLine == ReadMember(Lines(tool))

Next ==
  \/ Start
  \/ WhileEof
  \/ WhileLine
  \/ CollectEof
  \/ CollectLine

Spec == Init /\ [][Next]_vars

\* The runs of the per-record filters on one pair of files whose alignment
\* lines have empty columns and end with a tab.
TabsInit ==
  /\ Init
  /\ tool \in {"frr", "st"}
  /\ argc = (IF tool = "frr" THEN 3 ELSE 4)

TabsWhileLine == ReadLine(TabsLines(tool))

TabsCollectLine == ReadMember(TabsLines(tool))

TabsNext ==
  \/ Start
  \/ WhileEof
  \/ TabsWhileLine
  \/ CollectEof
  \/ TabsCollectLine

TabsSpec == TabsInit /\ [][TabsNext]_vars

----------------------------------------------------------------------------
(* Properties of the per-record filters *)

\* filter_reverse_reads and select_transcripts judge each record on its own.
PerRecord == tool \in {"frr", "st"}

\* The columns of a line.
Columns(line) == SplitTab(line)

\* The elements of seq whose mark is TRUE, in order.
RECURSIVE Marked(_, _)
Marked(seq, marks) ==
  IF seq = <<>> THEN <<>>
  ELSE (IF Head(marks) THEN <<Head(seq)>> ELSE <<>>)
         \o Marked(Tail(seq), Tail(marks))

\* The records of the unit that passed the filter, in input order.
Survivors == Marked(unit.ins, unit.kept)

\* The lines of the current output file written since the unit began.
Written == SubSeq(Current, unit.before + 1, Len(Current))

\* A per-record filter has read a whole group, written what it writes for it
\* and is back at the head of the loop over the lines.
GroupWritten ==
  /\ PerRecord /\ pc = "while"
  /\ unit.kind = "group" /\ unit.done /\ unit.code = 0

\* The number of records of the unit that passed the filter.
NKept == Cardinality({n \in 1..Len(unit.kept) : unit.kept[n]})

\* The group lost records: k < N.
Shrunk == GroupWritten /\ NKept < unit.n

\* Among the columns cols of a line, those that start with a prefix, FLAG
\* and MAPQ apart.
TagColumnsOf(cols, prefix) ==
  {j \in 1..Len(cols) : j \notin {2, 5} /\ StartsWith(cols[j], prefix)}

TagColumns(line, prefix) == TagColumnsOf(Columns(line), prefix)

\* The FLAG column of the line is a number with bit 256 clear.
PrimaryRecord(line) ==
  /\ HasFlag(line)
  /\ \E flag \in {FlagText(line)} :
       flag # <<>> /\ IsDigit(flag[1]) /\ ~BitSet(DecVal(flag), 256)

NPrimaries(lines) == Cardinality({n \in 1..Len(lines) : PrimaryRecord(lines[n])})

\* C1: when a group that declares N > 1 is read in full and every one of its
\* N records passes the filter, filter_reverse_reads and select_transcripts
\* write the N lines exactly as they were read, in input order.
C1_IdentityOnFullGroups ==
  (GroupWritten /\ unit.n > 1 /\ NKept = unit.n)
    => unit.outs = unit.ins /\ Written = unit.ins

C1_Witness ==
  /\ GroupWritten /\ unit.n = 3 /\ Len(Survivors) = 3
  /\ Written = unit.ins

\* C2: when a group shrinks to k < N survivors, every line written for it has
\* NH:i:k in each column where the survivor read had an NH tag, and no other
\* NH value.
C2_NHAccuracy ==
  Shrunk =>
    \A survivors \in {Survivors} :
      /\ Len(unit.outs) = Len(survivors)
      /\ \A n \in 1..Len(survivors) :
           \A read \in {Columns(survivors[n])} :
             \A written \in {Columns(unit.outs[n])} :
               /\ TagColumnsOf(written, NHPrefix) = TagColumnsOf(read, NHPrefix)
               /\ \A j \in TagColumnsOf(written, NHPrefix) :
                    written[j] = NHPrefix \o to_string(Len(survivors))

C2_Witness ==
  /\ Shrunk /\ unit.n = 3 /\ Len(unit.outs) = 2
  /\ \A n \in 1..2 : TagColumns(unit.outs[n], NHPrefix) # {}
  /\ \E n \in 1..2 : Survivors[n] # unit.outs[n]

\* C3: when a group shrinks to k < N survivors, the i-th line written for it
\* has HI:i:i in each column where the i-th survivor had an HI tag, so the
\* indices 1..k are contiguous in output order.
C3_HIRenumbering ==
  Shrunk =>
    \A survivors \in {Survivors} :
      \A n \in 1..Len(unit.outs) :
        \A read \in {Columns(survivors[n])} :
          \A written \in {Columns(unit.outs[n])} :
            /\ TagColumnsOf(written, HIPrefix) = TagColumnsOf(read, HIPrefix)
            /\ \A j \in TagColumnsOf(written, HIPrefix) :
                 written[j] = HIPrefix \o to_string(n)

C3_Witness ==
  /\ Shrunk /\ Len(unit.outs) = 2
  /\ \A n \in 1..2 : TagColumns(unit.outs[n], HIPrefix) # {}
  /\ \E n \in 1..2 :
       \E j \in TagColumns(Survivors[n], HIPrefix) :
         Columns(Survivors[n])[j] # Columns(unit.outs[n])[j]

\* C4: when a group read with exactly one primary record (bit 256 clear) is
\* written with k >= 1 lines, exactly one of the lines written is a primary.
C4_SinglePrimary ==
  (GroupWritten /\ NPrimaries(unit.ins) = 1 /\ Len(unit.outs) >= 1)
    => NPrimaries(unit.outs) = 1

C4_Witness ==
  /\ Shrunk /\ NPrimaries(unit.ins) = 1 /\ NPrimaries(Survivors) = 0
  /\ Len(unit.outs) = 2 /\ NPrimaries(unit.outs) = 1

\* C5: when a group shrinks and the primary record read is among the
\* survivors, the FLAG column of every survivor is written as it was read.
C5_PrimaryPreserved ==
  Shrunk =>
    \A survivors \in {Survivors} :
      NPrimaries(survivors) >= 1
        => \A n \in 1..Len(unit.outs) :
             FlagText(unit.outs[n]) = FlagText(survivors[n])

C5_Witness ==
  /\ Shrunk /\ NPrimaries(Survivors) = 1 /\ Len(unit.outs) = 2
  /\ unit.rewritten
  /\ \A n \in 1..2 : FlagText(unit.outs[n]) = FlagText(Survivors[n])

\* The MAPQ values the specification lists.
ExpectedMapq(k) ==
  CASE k <= 1 -> 255
    [] k = 2  -> 3
    [] k = 3  -> 1
    [] k = 4  -> 1

\* The MAPQ text of the program for 0 to 4 survivors.
MapqAsExpected == \A k \in 0..4 : mapq(k) = to_string(ExpectedMapq(k))

\* C6: in a group written by the rewriter with k survivors, the fifth column
\* of every line is 255 when k <= 1 and otherwise -10 * log10(1 - 1 / k)
\* truncated to an integer: 3 for k = 2, 1 for k = 3, 1 for k = 4; all lines
\* of the group get the same value.
C6_MapqTruncation ==
  /\ MapqAsExpected
  /\ (GroupWritten /\ unit.rewritten)
       => \A n \in 1..Len(unit.outs) :
            \A written \in {Columns(unit.outs[n])} :
              Len(written) >= 5
                => written[5] = to_string(ExpectedMapq(Len(unit.outs)))

C6_Witness ==
  /\ GroupWritten /\ unit.rewritten
  /\ Len(unit.outs) = 3
  /\ \A n \in 1..3 : Columns(unit.outs[n])[5] = <<"1">>
  /\ \E n \in 1..3 : Columns(Survivors[n])[5] # <<"1">>

----------------------------------------------------------------------------
(* Properties of filter_ambiguous_genes *)

\* The transcript of a line: its third column when a fourth follows.
IdOf(line) ==
  CHOOSE id \in {IF Len(cols) >= 4 THEN cols[3] ELSE <<>> : cols \in {Columns(line)}} :
    TRUE

\* The transcript of the line is not in the table read from the annotation.
Unknown(line) == IdOf(line) \notin DOMAIN Annotations

\* filter_ambiguous_genes has read a whole group of N > 1 lines of known
\* transcripts.
KnownGroup ==
  /\ tool = "fag" /\ pc = "while"
  /\ unit.kind = "group" /\ unit.done /\ unit.code = 0
  /\ unit.n > 1 /\ Len(unit.ins) = unit.n
  /\ \A n \in 1..Len(unit.ins) : ~Unknown(unit.ins[n])

\* Every line of the unit is of the gene of the first.
SameGene ==
  \A gene \in {Annotations[IdOf(unit.ins[1])]} :
    \A n \in 1..Len(unit.ins) : Annotations[IdOf(unit.ins[n])] = gene

\* C7: filter_ambiguous_genes writes a complete group of N > 1 records of
\* known transcripts as it was read when every record is of the gene of the
\* first, and writes nothing of it otherwise, wherever the other gene is.
C7_WholeGroupAtomicity ==
  KnownGroup =>
    /\ Written = unit.outs
    /\ unit.outs = IF SameGene THEN unit.ins ELSE <<>>

C7_Witness ==
  /\ KnownGroup /\ unit.n = 3 /\ unit.outs = <<>> /\ Written = <<>>
  /\ Annotations[IdOf(unit.ins[2])] # Annotations[IdOf(unit.ins[1])]
  /\ Annotations[IdOf(unit.ins[3])] = Annotations[IdOf(unit.ins[1])]

C7_WitnessKept == KnownGroup /\ SameGene /\ Written = unit.ins

----------------------------------------------------------------------------
(* Properties of the three filters *)

\* C8: when the input ends while the lines of a group that declares N > 1
\* are read (fewer than N - 1 lines followed its first record), each of the
\* three filters returns 17 and no line of the group is in the output.
C8_TruncationFatal ==
  [][(pc = "collect" /\ input' = input)
       => /\ unit.n > 1 /\ Len(unit.ins) < unit.n
          /\ Len(Current) = unit.before
          /\ pc' = "exit" /\ status' = 17
          /\ output' = output]_vars

C8_Witness ==
  /\ pc = "exit" /\ status = 17
  /\ unit.kind = "group" /\ unit.n = 3 /\ Len(unit.ins) = 2
  /\ unit.kept = <<TRUE, TRUE>>
  /\ Written = <<>>

\* C9 as stated: in filter_ambiguous_genes every alignment record of an
\* unknown transcript, a record that declares multiplicity 1 included, ends
\* the run with a status other than 0 and nothing more is read or written.
C9_EveryUnknownFatal ==
  (tool = "fag" /\ unit.kind \in {"single", "group"}
     /\ \E n \in 1..Len(unit.ins) : Unknown(unit.ins[n]))
    => pc = "exit" /\ status \notin {0, 17} /\ Written = <<>>

\* C9: in filter_ambiguous_genes a record of an unknown transcript that
\* starts a unit of declared multiplicity other than 1, or is read as one of
\* the further lines of such a unit, ends the run at once: status 6 for the
\* first record and 7 for a later one, no further line read, nothing of the
\* unit written.  A record that declares multiplicity 1 is written as read
\* without a lookup.
C9_UnknownInGroupFatal ==
  /\ (tool = "fag" /\ unit.kind = "group"
        /\ \E n \in 1..Len(unit.ins) : Unknown(unit.ins[n]))
       => /\ \A n \in 1..(Len(unit.ins) - 1) : ~Unknown(unit.ins[n])
          /\ pc = "exit"
          /\ status = (IF Len(unit.ins) = 1 THEN 6 ELSE 7)
          /\ Written = <<>>
          /\ SubSeq(input[Len(input)],
                    Len(input[Len(input)]) - Len(unit.ins) + 1,
                    Len(input[Len(input)])) = unit.ins
  /\ (tool = "fag" /\ unit.kind = "single")
       => status = 0 /\ Written = unit.ins

C9_Witness ==
  /\ tool = "fag" /\ unit.kind = "group" /\ pc = "exit" /\ status = 7
  /\ Len(unit.ins) = 2 /\ Unknown(unit.ins[2]) /\ unit.n = 3
  /\ Len(Current) = 1

C9_WitnessFirst ==
  /\ tool = "fag" /\ unit.kind = "group" /\ pc = "exit" /\ status = 6
  /\ Unknown(unit.ins[1])

\* The line starts with '@'.
IsHeader(line) == line # <<>> /\ line[1] = "@"

\* The value of the first SN column of a header line, if it has one.
SNColumns(line) ==
  UNION {{j \in 2..Len(cols) : StartsWith(cols[j], <<"S", "N", ":">>)} :
           cols \in {Columns(line)}}

SNOf(line) ==
  LET j == CHOOSE c \in SNColumns(line) : \A d \in SNColumns(line) : c <= d
  IN  SubSeq(Columns(line)[j], 4, Len(Columns(line)[j]))

\* What is written for a header line read between two units.
HeaderWritten(line) ==
  IF tool = "st" /\ Columns(line)[1] = <<"@", "S", "Q">> /\ Len(Columns(line)) > 1
    THEN IF SNColumns(line) # {} /\ SNOf(line) \in transcript_ids
           THEN <<line>> ELSE <<>>
    ELSE <<line>>

C10_WitnessSQ ==
  /\ tool = "st" /\ unit.kind = "header" /\ unit.outs = <<>>
  /\ SNColumns(unit.ins[1]) # {}

C10_WitnessMember ==
  /\ tool = "st" /\ unit.kind = "group" /\ unit.done /\ unit.code = 0
  /\ \E n \in 2..Len(unit.ins) : IsHeader(unit.ins[n])

----------------------------------------------------------------------------
(* The keep/drop decisions *)

\* A per-record filter has read a whole unit of declared multiplicity
\* N >= 1, written what it writes for it and is back at the head of the loop.
RecordsJudged ==
  /\ PerRecord /\ pc = "while"
  /\ unit.kind \in {"single", "group"} /\ unit.done /\ unit.code = 0
  /\ unit.n >= 1

\* The third column of a line that has a fourth, and the empty string for a
\* line that has none.
ThirdField(line) ==
  IF ~HasFlag(line) THEN <<>>
  ELSE LET from == find(line, TAB, find(line, TAB, 0) + 1) + 1
           to == find(line, TAB, from)
       IN  IF to = NPOS THEN <<>> ELSE SubSeq(line, from + 1, to)

\* The FLAG column of the line has bit 16 clear.
Forward(line) ==
  /\ HasFlag(line)
  /\ \E flag \in {FlagText(line)} :
       flag # <<>> /\ IsDigit(flag[1]) /\ ~BitSet(DecVal(flag), 16)

\* What the filter is to keep.
Permitted(line) ==
  IF tool = "frr" THEN Forward(line) ELSE ThirdField(line) \in transcript_ids

\* C11: of a unit of N >= 1 records read in full, filter_reverse_reads keeps
\* exactly the records whose FLAG has bit 16 clear and select_transcripts
\* exactly those whose third column is in the allow-list; one line is written
\* for each record kept, and every line written has bit 16 clear,
\* respectively a third column of the allow-list.
C11_PolicyCorrect ==
  [](RecordsJudged =>
       /\ Len(unit.ins) = unit.n
       /\ \A n \in 1..Len(unit.ins) : unit.kept[n] <=> Permitted(unit.ins[n])
       /\ Len(unit.outs) = NKept
       /\ \A n \in 1..Len(unit.outs) : Permitted(unit.outs[n]))

C11_Witness ==
  /\ RecordsJudged /\ unit.n = 3
  /\ unit.kept = <<TRUE, FALSE, TRUE>>
  /\ Len(unit.outs) = 2 /\ unit.outs[2] # unit.ins[3]

\* C12: when a group shrinks and no survivor is a primary, the FLAG of the
\* first survivor is written with bit 256 cleared (its value less 256) and
\* the FLAG of every other survivor as read.  Survivors whose CIGAR columns
\* differ change nothing of this: a group read in full without an exception
\* is left unwritten only with status 11 or 12, when a survivor has fewer
\* than seven columns.
C12_FirstSurvivorPromoted ==
  [](/\ (Shrunk /\ NKept >= 1) =>
          \A survivors \in {Survivors} :
            NPrimaries(survivors) = 0 =>
              /\ Len(unit.outs) = Len(survivors)
              /\ FlagText(unit.outs[1])
                   = to_string(DecVal(FlagText(survivors[1])) - 256)
              /\ PrimaryRecord(unit.outs[1])
              /\ \A n \in 2..Len(survivors) :
                   FlagText(unit.outs[n]) = FlagText(survivors[n])
     /\ (PerRecord /\ unit.kind = "group" /\ unit.done
           /\ unit.code \notin {0, 17, 134}) =>
          /\ unit.code \in {11, 12}
          /\ \E n \in 1..Len(unit.ins) :
               unit.kept[n] /\ Len(Columns(unit.ins[n])) < 7)

C12_Witness ==
  /\ Shrunk /\ unit.warn /\ Len(unit.outs) = 2
  /\ ~PrimaryRecord(Survivors[1]) /\ PrimaryRecord(unit.outs[1])
  /\ ~PrimaryRecord(unit.outs[2])

\* A per-record filter has read all lines of a group that declares N > 1
\* and kept none of them, no line having raised an exception.
NoSurvivor ==
  /\ PerRecord /\ unit.kind = "group"
  /\ unit.n > 1 /\ Len(unit.ins) = unit.n
  /\ NKept = 0 /\ unit.code # 134

\* C13: when a per-record filter drops every record of a group read in full,
\* it writes nothing for the group, the run does not end with an error, and
\* the next line read starts a new unit.
C13_EmptySurvivorSet ==
  /\ [](NoSurvivor =>
          /\ unit.done /\ unit.code = 0 /\ status = 0
          /\ pc \in {"while", "exit"}
          /\ unit.outs = <<>> /\ Written = <<>>)
  /\ [][(NoSurvivor /\ input' # input /\ Len(input') = Len(input))
          => /\ pc = "while"
             /\ Len(unit'.ins) = 1
             /\ input'[Len(input')] = Append(input[Len(input)], unit'.ins[1])]_vars

C13_Witness ==
  /\ NoSurvivor /\ unit.n = 2 /\ pc = "while"
  /\ Len(Current) = 1 /\ unit.before = 1 /\ status = 0

\* What each of the three filters is to keep of a record on its own.
KeptAlone(line) == tool = "fag" \/ Permitted(line)

\* C14: a record that declares multiplicity 1 is a unit of one line: the
\* step that reads it reads no other line, and the record is written exactly
\* as read when the filter keeps it (filter_ambiguous_genes keeps every such
\* record) and not written otherwise.
C14_SingletonFastPath ==
  /\ []((unit.kind = "single" /\ unit.done /\ unit.code = 0) =>
          /\ unit.n = 1 /\ Len(unit.ins) = 1
          /\ ~unit.rewritten
          /\ unit.outs = (IF KeptAlone(unit.ins[1]) THEN unit.ins ELSE <<>>)
          /\ Written = unit.outs)
  /\ [][(unit'.kind = "single" /\ input' # input)
          => /\ pc = "while"
             /\ input' = [input EXCEPT ![Len(input)] = Append(@, unit'.ins[1])]
             /\ pc' \in {"while", "terminated"}]_vars

C14_Witness ==
  /\ tool = "frr" /\ unit.kind = "single" /\ unit.done /\ unit.code = 0
  /\ unit.outs = <<>> /\ Len(Current) = 1 /\ Len(input[Len(input)]) = 3

C14_WitnessKept ==
  /\ tool = "fag" /\ unit.kind = "single" /\ unit.done
  /\ Unknown(unit.ins[1]) /\ Written = unit.ins

----------------------------------------------------------------------------
(* The frame of the rewriter *)

\* A per-record filter has written a group with the rewriter.
GroupRewritten == GroupWritten /\ unit.rewritten

\* Column j of the n-th survivor may differ from its input: the FLAG of a
\* newly chosen primary, MAPQ, the NH tag and the HI tag.
Targeted(cols, j, n) ==
  \/ j = 2 /\ n = 1 /\ NPrimaries(Survivors) = 0
  \/ j = 5
  \/ j \in TagColumnsOf(cols, NHPrefix)
  \/ j \in TagColumnsOf(cols, HIPrefix)

\* C15: when a group is rewritten, every line written has as many
\* tab-separated columns as the survivor it is written for, and each column
\* that is not the FLAG of a newly chosen primary, MAPQ, the NH tag or the HI
\* tag equals the column of the input, empty columns and an empty last
\* column included.
C15_RewriteFrame ==
  GroupRewritten =>
    /\ Len(unit.outs) = NKept
    /\ \A survivors \in {Survivors} :
         \A n \in 1..Len(survivors) :
           \A cols \in {Columns(survivors[n])} :
             \A outcols \in {Columns(unit.outs[n])} :
               /\ Len(outcols) = Len(cols)
               /\ \A j \in 1..Len(cols) :
                    Targeted(cols, j, n) \/ outcols[j] = cols[j]

\* A rewritten group whose survivor ends with a tab, and the line written
\* for it, which ends with the HI tag.
C15_Witness ==
  /\ GroupRewritten /\ NKept = 1
  /\ \A survivors \in {Survivors} :
       /\ survivors[1][Len(survivors[1])] = TAB
       /\ Len(Columns(survivors[1])) = 14
       /\ Len(Columns(unit.outs[1])) = 13
       /\ Columns(unit.outs[1])[7] = <<>>
       /\ Columns(unit.outs[1])[10] = <<>>

----------------------------------------------------------------------------
(* The order of the output *)

\* The lines the inputs are made of, and for each of them the parts the
\* rewriter takes from it.
AllLines ==
  LinesFRR \cup LinesST \cup LinesFAG \cup TabsLines("frr") \cup TabsLines("st")

PartsOf == [line \in AllLines |-> GetlineParts(line)]

\* The line out is the line in as it was read, or as the rewriter writes
\* it: the parts it takes from the line, but for bit 256 of FLAG, MAPQ, the
\* NH tag and the HI tag.
DerivesFrom(out, in) ==
  \/ out = in
  \/ /\ PerRecord
     /\ \A cols \in {PartsOf[in]} :
          \A outcols \in {Columns(out)} :
            /\ Len(outcols) = Len(cols)
            /\ \A j \in 1..Len(cols) :
                 \/ outcols[j] = cols[j]
                 \/ j = 2 /\ ~stoullThrows(cols[j])
                          /\ outcols[j] = to_string(XorBit(stoull(cols[j]), 256))
                 \/ j = 5
                 \/ j \in TagColumnsOf(cols, NHPrefix)
                 \/ j \in TagColumnsOf(cols, HIPrefix)

\* The lines outs derive, one by one and in order, from distinct lines of
\* ins.
RECURSIVE Embeds(_, _)
Embeds(outs, ins) ==
  IF outs = <<>> THEN TRUE
  ELSE IF Len(ins) < Len(outs) THEN FALSE
  ELSE \/ DerivesFrom(Head(outs), Head(ins)) /\ Embeds(Tail(outs), Tail(ins))
       \/ Embeds(outs, Tail(ins))

\* The run is over: main has returned, or an exception has ended it.
Ended == pc \in {"exit", "terminated"}

\* C16: when the run is over, however it ended, for every pair of files the
\* lines of the output file derive from the lines read from the input file
\* in an order-preserving way: each line written comes from one line read, no
\* line read is written twice, and the lines are written in the order in
\* which they were read.
C16_OrderPreserved ==
  [](Ended =>
       /\ Len(output) = Len(input)
       /\ \A p \in 1..Len(output) :
            output[p] = input[p] \/ Embeds(output[p], input[p]))

\* The run is over after two units were written one after the other: a
\* group that lost its second record and was rewritten, and a single record.
C16_Witness ==
  /\ pc = "exit" /\ status = 0
  /\ unit.kind = "single" /\ unit.done /\ unit.outs # <<>>
  /\ Len(input[Len(input)]) = 4
  /\ Len(Current) = 3
  /\ Current[1] # input[Len(input)][1]
  /\ Current[2] # Current[1]
  /\ Current[3] = input[Len(input)][4]

\* The run is over after a group of three distinct records was written as it
\* was read.
C16_WitnessVerbatim ==
  /\ pc = "exit" /\ PerRecord
  /\ unit.kind = "group" /\ unit.done /\ unit.code = 0
  /\ ~unit.rewritten /\ unit.n = 3
  /\ Current = unit.ins
  /\ unit.ins[1] # unit.ins[2] /\ unit.ins[2] # unit.ins[3]
  /\ unit.ins[1] # unit.ins[3]

----------------------------------------------------------------------------
(* The scope of a fatal condition *)

\* The statuses with which main returns on a fatal condition: an unknown
\* identifier (6, 7), a line without a CIGAR column (11, 12), a truncated
\* group (17).
FatalCodes == {6, 7, 11, 12, 17}

\* The step in which a fatal condition occurs.
FatalStep == unit.code = 0 /\ unit'.code \in FatalCodes

\* C17: the step in which a fatal condition occurs in a pair of files ends
\* the run with that non-zero status; it leaves every output file, the one
\* of the current pair and those of the earlier pairs, as it was, so that
\* nothing of the failing group is written; it opens no further pair, and
\* after the end of a run nothing happens anymore.
C17_FatalAbortScope ==
  /\ [][FatalStep =>
          /\ pc' = "exit"
          /\ status' = unit'.code /\ status' # 0
          /\ output' = output
          /\ unit'.outs = <<>>
          /\ unit'.before <= Len(Current)
          /\ Len(input') = Len(input)
          /\ argi' = argi]_vars
  /\ [][~Ended]_vars

\* A run on two pairs of files was ended by a fatal condition in the first
\* pair, after a unit of that pair had been written.
C17_Witness ==
  /\ pc = "exit" /\ status \in FatalCodes
  /\ NPairs = 2 /\ Len(input) = 1
  /\ Current # <<>> /\ unit.before = Len(Current)
  /\ Len(unit.ins) >= 1

\* A run was ended by a fatal condition in its second pair of files; the
\* output file of the first pair holds a line.
C17_WitnessSecondPair ==
  /\ pc = "exit" /\ status \in FatalCodes
  /\ Len(output) = 2 /\ output[1] # <<>>

----------------------------------------------------------------------------
(* The command line *)

\* The file names after the name of the program and, for select_transcripts
\* and filter_ambiguous_genes, the lookup file.
NFiles == IF tool = "frr" THEN argc - 1 ELSE argc - 2

\* The arguments have the form <lookup-file>? (<input> <output>)+.
WellFormed == NFiles >= 2 /\ NFiles % 2 = 0

\* main is past the test of its arguments.
Invoked == pc # "start"

\* No pair of files was opened.
NothingProcessed == input = <<>> /\ output = <<>>

\* No lookup file was read.
NothingLoaded == transcript_ids = {} /\ transcript_gene = <<>>

C18_WitnessAnnotations ==
  /\ tool = "fag" /\ argc = 2
  /\ pc = "exit" /\ status = 0 /\ NothingProcessed
  /\ transcript_gene = Annotations

----------------------------------------------------------------------------
(* The exit statuses *)

\* main has returned while the unit read last was in order.
Succeeded == pc = "exit" /\ unit.code = 0

\* main has returned because of the unit read last.
Aborted == pc = "exit" /\ unit.code # 0

\* The line of the unit read last.
LastRead == unit.ins[Len(unit.ins)]

\* The class of the unknown identifier: filter_ambiguous_genes has looked up
\* the transcript of the line read last, which is not in the annotations.
UnknownIdentifier == Aborted /\ tool = "fag" /\ Unknown(LastRead)

\* The class of the truncated group: the input ended before the group had
\* its lines.
TruncatedGroup ==
  Aborted /\ Len(unit.ins) < unit.n /\ ~UnknownIdentifier

\* The kept lines of the unit that have no column after the CIGAR.
NoCigar == {n \in 1..Len(unit.ins) :
              unit.kept[n] /\ Len(Columns(unit.ins[n])) < 7}

\* The class of the column-count violation: a per-record filter has read the
\* whole group and one of the kept lines has no column after the CIGAR.
ColumnCount ==
  Aborted /\ PerRecord /\ Len(unit.ins) >= unit.n /\ NoCigar # {}

\* The first kept line without a column after the CIGAR has fewer than six
\* columns.
FirstLacksCigar ==
  \E n \in NoCigar :
    /\ \A m \in NoCigar : n <= m
    /\ Len(Columns(unit.ins[n])) < 6

\* C19 as stated: the status is 0 on success, and each class of fatal
\* condition has one small positive status of its own in a tool: 17 for
\* the truncated group, and for the unknown identifier and the column-count
\* violation the status of the first test for the class in the source, 6 and
\* 12.
C19_OneStatusPerClass ==
  /\ Succeeded => status = 0
  /\ TruncatedGroup => status = 17
  /\ UnknownIdentifier => status = 6
  /\ ColumnCount => status = 12

\* C19: the status is 0 on success.  A run that a fatal condition ends is of
\* exactly one class and has a status between 1 and 17 that no other class
\* has: 17 for the truncated group in every tool; 6 for an unknown
\* identifier in the first line of a group and 7 for one in a later line; 12
\* for a kept line of fewer than six columns and 11 for a kept line of
\* exactly six columns, whichever comes first in the group.
C19_ExitStatuses ==
  [](/\ Succeeded => status = 0
     /\ Aborted =>
          /\ status = unit.code /\ status \in 1..17
          /\ TruncatedGroup \/ UnknownIdentifier \/ ColumnCount
          /\ ~(TruncatedGroup /\ ColumnCount)
          /\ ~(UnknownIdentifier /\ ColumnCount)
     /\ TruncatedGroup => status = 17
     /\ UnknownIdentifier => status = (IF Len(unit.ins) = 1 THEN 6 ELSE 7)
     /\ ColumnCount => status = (IF FirstLacksCigar THEN 12 ELSE 11))

\* A per-record filter has returned 11: the first kept line without a column
\* after the CIGAR has six columns.
C19_Witness == ColumnCount /\ status = 11 /\ ~FirstLacksCigar

\* filter_ambiguous_genes has returned 7 for an unknown identifier in the
\* second line of a group.
C19_WitnessSeven == UnknownIdentifier /\ status = 7 /\ Len(unit.ins) = 2

\* filter_ambiguous_genes has returned 6 for an unknown identifier in the
\* first line of a group.
C19_WitnessSix == UnknownIdentifier /\ status = 6 /\ Len(unit.ins) = 1

\* A per-record filter has returned 12.
C19_WitnessTwelve == ColumnCount /\ status = 12 /\ FirstLacksCigar

\* select_transcripts has returned 17 for a truncated group.
C19_WitnessTruncated == TruncatedGroup /\ status = 17 /\ tool = "st"

----------------------------------------------------------------------------
(* The header of select_transcripts *)

\* The line is an "@SQ" line with fields.
SQLine(line) == StartsWith(line, <<"@", "S", "Q", TAB>>)

\* The "@SQ" line names a reference of the allow-list.
Listed(line) == SNColumns(line) # {} /\ SNOf(line) \in transcript_ids

\* The line is among the lines written for the unit.
Emitted(line) == \E m \in 1..Len(unit.outs) : unit.outs[m] = line

\* C20 as stated: of the lines that start with '@', select_transcripts writes
\* an "@SQ" line if and only if its SN value is in the allow-list, and every
\* other line unchanged, wherever it reads them.
C20_EveryHeaderUpdated ==
  (tool = "st" /\ unit.done /\ unit.code = 0) =>
    \A n \in 1..Len(unit.ins) :
      \A line \in {unit.ins[n]} :
        IsHeader(line) =>
          IF SQLine(line) THEN Emitted(line) <=> Listed(line)
          ELSE Emitted(line)

\* C20: select_transcripts handles a line that starts with '@' and is read
\* where a unit may start as a header line: an "@SQ" line is written,
\* unchanged, if and only if it has an SN field whose value is in the
\* allow-list, so an "@SQ" line without SN field is not written; every other
\* such line is written unchanged.  A line that starts with '@' and is read
\* among the lines of a group is judged as a record of the group, by its
\* third column.
C20_SQFilter ==
  [](tool = "st" =>
       /\ (unit.ins # <<>> /\ IsHeader(unit.ins[1])) =>
            \A line \in {unit.ins[1]} :
              /\ unit.kind = "header" /\ unit.ins = <<line>>
              /\ unit.outs = (IF SQLine(line) /\ ~Listed(line) THEN <<>>
                              ELSE <<line>>)
              /\ Written = unit.outs
       /\ \A n \in 2..Len(unit.ins) :
            (IsHeader(unit.ins[n]) /\ unit.done /\ unit.code = 0)
              => unit.kind = "group"
                   /\ (unit.kept[n] <=> ThirdField(unit.ins[n]) \in transcript_ids))

\* With the allow-list {A}, select_transcripts has read the line "@SQ SN:B
\* LN:5" as a header line and has not written it.
C20_Witness ==
  /\ tool = "st" /\ transcript_ids = {IdA}
  /\ unit.kind = "header" /\ unit.ins = <<HeaderSQ(IdB)>>
  /\ unit.outs = <<>> /\ Written = <<>>

\* With the allow-list {A, B}, the same line is written, after another
\* header line.
C20_WitnessListed ==
  /\ tool = "st" /\ transcript_ids = {IdA, IdB}
  /\ unit.kind = "header" /\ unit.ins = <<HeaderSQ(IdB)>>
  /\ Current = <<HeaderHD, HeaderSQ(IdB)>>

\* An "@SQ" line without SN field was read as a header line and not written.
C20_WitnessNoSN ==
  /\ tool = "st"
  /\ unit.kind = "header" /\ unit.ins = <<HeaderSQNoSN>> /\ unit.outs = <<>>

\* A line that starts with '@' was read as the second line of a group that
\* select_transcripts has written: the line was dropped.
C20_WitnessInGroup ==
  /\ tool = "st" /\ unit.kind = "group" /\ unit.done /\ unit.code = 0
  /\ Len(unit.ins) = 3 /\ unit.ins[2] = HeaderHD
  /\ ~unit.kept[2] /\ Len(unit.outs) = 2

----------------------------------------------------------------------------
(* region_readcounts *)

\* The lines read from <ranges> and from <counts> are at most MaxRanges and
\* MaxCounts.
MaxRanges == 2

MaxCounts == 2

\* The lines <ranges> is made of: a length, two ranges, a line of one column
\* and a line of four.
RangeLines ==
  { JoinTab(<<IdA, <<"3">>>>),
    JoinTab(<<IdA, <<"2">>, <<"4">>>>),
    JoinTab(<<IdB, <<"2">>, <<"3">>>>),
    IdC,
    JoinTab(<<IdB, <<"1">>, <<"9">>, <<"9">>>>) }

\* The lines <counts> is made of: positions 1 to 4 of A, position 2 of B, a
\* line of an identifier no range line has, whose position is no number, and
\* lines of two and of four columns.
CountLines ==
  { JoinTab(<<IdA, <<"1">>, <<"5">>>>),
    JoinTab(<<IdA, <<"2">>, <<"1">>>>),
    JoinTab(<<IdA, <<"3">>, <<"2">>>>),
    JoinTab(<<IdA, <<"4">>, <<"5">>>>),
    JoinTab(<<IdB, <<"2">>, <<"7">>>>),
    JoinTab(<<IdX, <<"x">>, <<"1">>>>),
    JoinTab(<<IdA, <<"2">>>>),
    JoinTab(<<IdA, <<"2">>, <<"1">>, <<"1">>>>) }

\* std::stod(s) of a text that starts with a whole number.  (The counts of
\* the model have no sign, no fraction and no exponent, so the sums of
\* doubles are exact.)
stod(s) == DecVal(SubSeq(s, 1, DigitPrefix(s)))

stodThrows(s) == DigitPrefix(s) = 0

\* The body of the loop over the lines of <ranges>: the line is skipped, an
\* exception of std::stoull ends the program, or ranges[id] is assigned.
RangeOf(line) ==
  LET tab_first == find(line, TAB, 0)
      tab_second == find(line, TAB, tab_first + 1)
      id == substr(line, 0, tab_first)
      skip == [kind |-> "skip", id |-> <<>>, range |-> <<0, 0>>]
      throw == [kind |-> "throw", id |-> <<>>, range |-> <<0, 0>>]
  IN  IF tab_first = NPOS THEN skip
      ELSE IF tab_second = NPOS
        THEN IF stoullThrows(substrFrom(line, tab_first + 1)) THEN throw
             ELSE [kind |-> "set", id |-> id,
                   range |-> <<1, 1 + stoull(substrFrom(line, tab_first + 1))>>]
      ELSE IF find(line, TAB, tab_second + 1) # NPOS THEN skip
      ELSE LET from == substr(line, tab_first + 1, tab_second - tab_first - 1)
               to == substrFrom(line, tab_second + 1)
           IN  IF stoullThrows(from) \/ stoullThrows(to) THEN throw
               ELSE [kind |-> "set", id |-> id,
                     range |-> <<stoull(from), stoull(to)>>]

\* ranges[id] = range.
Assign(map, id, value) ==
  [k \in DOMAIN map \cup {id} |-> IF k = id THEN value ELSE map[k]]

\* A faulty test of the position that takes the range for closed: [from; to].
InRange_Closed(range, pos) == range[1] <= pos /\ pos <= range[2]

\* ranges_it->second.first <= pos && pos < ranges_it->second.second.
InRange(range, pos) == range[1] <= pos /\ pos < range[2]

\* The body of the loop over the lines of <counts>: the line is skipped, its
\* identifier is missing in ranges, an exception of std::stoull or std::stod
\* ends the program, the position is outside the range, or the count is
\* added to coefs[id].
CountOf(line, rs) ==
  LET tab_first == find(line, TAB, 0)
      tab_second == find(line, TAB, tab_first + 1)
      id == substr(line, 0, tab_first)
      pos == substr(line, tab_first + 1, tab_second - tab_first - 1)
      cnt == substrFrom(line, tab_second + 1)
      none == [kind |-> "skip", id |-> <<>>, add |-> 0]
  IN  IF tab_first = NPOS THEN none
      ELSE IF tab_second = NPOS THEN none
      ELSE IF find(line, TAB, tab_second + 1) # NPOS THEN none
      ELSE IF id \notin DOMAIN rs THEN [none EXCEPT !.kind = "missing", !.id = id]
      ELSE IF stoullThrows(pos) THEN [none EXCEPT !.kind = "throw"]
      ELSE IF ~InRange(rs[id], stoull(pos)) THEN [none EXCEPT !.kind = "outside", !.id = id]
      ELSE IF stodThrows(cnt) THEN [none EXCEPT !.kind = "throw"]
      ELSE [kind |-> "add", id |-> id, add |-> stod(cnt)]

\* The order of std::string: a is less than b.
Letters == <<TAB, "0", "1", "2", "3", "4", "5", "6", "7", "8", "9",
             "A", "B", "C", "G", "X">>

Rank(c) == CHOOSE r \in 1..Len(Letters) : Letters[r] = c

RECURSIVE Less(_, _)
Less(a, b) ==
  IF b = <<>> THEN FALSE
  ELSE IF a = <<>> THEN TRUE
  ELSE IF a[1] # b[1] THEN Rank(a[1]) < Rank(b[1])
  ELSE Less(Tail(a), Tail(b))

\* The keys of a std::map in the order of its iterator.
RECURSIVE Keys(_)
Keys(ks) ==
  IF ks = {} THEN <<>>
  ELSE LET least == CHOOSE k \in ks : \A l \in ks \ {k} : Less(k, l)
       IN  <<least>> \o Keys(ks \ {least})

\* The lines written to std::cout for the totals cs.
Totals(cs) ==
  [n \in 1..Cardinality(DOMAIN cs) |->
     LET id == Keys(DOMAIN cs)[n] IN JoinTab(<<id, to_string(cs[id])>>)]

\* The state of region_readcounts after construction.
RegionInit ==
  /\ tool = "rr"
  /\ argc \in 2..4
  /\ idsFile = {}
  /\ transcript_ids = {}
  /\ transcript_gene = <<>>
  /\ pc = "start"
  /\ status = 0
  /\ argi = 0
  /\ input = <<>>
  /\ output = <<>>
  /\ count = 0
  /\ i = 0
  /\ group = <<>>
  /\ primary = -1
  /\ modification = FALSE
  /\ firstGene = <<>>
  /\ unit = NoUnit
  /\ ranges = <<>>
  /\ coefs = <<>>
  /\ missing = {}
  /\ coordinates = <<>>
  /\ transcript = <<>>
  /\ gtf = {}

\* main up to the first std::getline on <ranges>: the usage text, or the
\* file is opened.
RegionStart ==
  /\ pc = "start"
  /\ IF argc # 3
       THEN pc' = "exit" /\ input' = input
       ELSE pc' = "ranges" /\ input' = <<<<>>>>
  /\ status' = 0
  /\ UNCHANGED <<tool, argc, idsFile, transcript_ids, transcript_gene, argi,
                 output, count, i, group, primary, modification, firstGene,
                 unit, tables>>

\* std::getline(ranges_file, line) reads a line.
RangesLine ==
  /\ pc = "ranges"
  /\ Len(input[1]) < MaxRanges
  /\ \E line \in RangeLines :
       \E r \in {RangeOf(line)} :
         /\ input' = [input EXCEPT ![1] = Append(@, line)]
         /\ pc' = (IF r.kind = "throw" THEN "terminated" ELSE "ranges")
         /\ status' = (IF r.kind = "throw" THEN 134 ELSE 0)
         /\ ranges' = (IF r.kind = "set" THEN Assign(ranges, r.id, r.range)
                       ELSE ranges)
  /\ UNCHANGED <<tool, argc, idsFile, transcript_ids, transcript_gene, argi,
                 output, count, i, group, primary, modification, firstGene,
                 unit, coefs, missing, coordinates, transcript, gtf>>

\* std::getline(ranges_file, line) fails: <counts> is opened.
RangesEof ==
  /\ pc = "ranges"
  /\ pc' = "counts"
  /\ input' = Append(input, <<>>)
  /\ UNCHANGED <<tool, argc, idsFile, transcript_ids, transcript_gene, status,
                 argi, output, count, i, group, primary, modification,
                 firstGene, unit, tables>>

\* std::getline(counts_file, line) reads a line.
CountsLine ==
  /\ pc = "counts"
  /\ Len(input[2]) < MaxCounts
  /\ \E line \in CountLines :
       \E c \in {CountOf(line, ranges)} :
         /\ input' = [input EXCEPT ![2] = Append(@, line)]
         /\ pc' = (IF c.kind = "throw" THEN "terminated" ELSE "counts")
         /\ status' = (IF c.kind = "throw" THEN 134 ELSE 0)
         /\ missing' = (IF c.kind = "missing" THEN missing \cup {c.id}
                        ELSE missing)
         /\ coefs' = (IF c.kind = "add"
                        THEN Assign(coefs, c.id,
                                    (IF c.id \in DOMAIN coefs THEN coefs[c.id]
                                     ELSE 0) + c.add)
                        ELSE coefs)
  /\ UNCHANGED <<tool, argc, idsFile, transcript_ids, transcript_gene, argi,
                 output, count, i, group, primary, modification, firstGene,
                 unit, ranges, coordinates, transcript, gtf>>

\* std::getline(counts_file, line) fails: return 2 when coefs is empty, and
\* otherwise the totals are written and main returns 0.
CountsEof ==
  /\ pc = "counts"
  /\ pc' = "exit"
  /\ status' = (IF DOMAIN coefs = {} THEN 2 ELSE 0)
  /\ output' = <<Totals(coefs)>>
  /\ UNCHANGED <<tool, argc, idsFile, transcript_ids, transcript_gene, argi,
                 input, count, i, group, primary, modification, firstGene,
                 unit, tables>>

RegionNext ==
  \/ RegionStart
  \/ RangesLine
  \/ RangesEof
  \/ CountsLine
  \/ CountsEof

RegionSpec == RegionInit /\ [][RegionNext]_vars

----------------------------------------------------------------------------
(* transcripts_startstop_positions *)

\* The lines read from <GTF_file> are at most MaxGtf, and the coordinates of
\* its lines are in 1..MaxCoord.
MaxGtf == 4

MaxCoord == 6

\* The number of values of size_t.  (2^64 in the build; 2^30 here, the
\* largest power of two whose sums the model checker's integers hold.  The
\* coordinates are far below either, so that -x is SizeMax - x in both.)
SizeMax == 1073741824

\* -x, x + y and x - y of size_t.
Neg(x) == (SizeMax - x) % SizeMax

Plus(x, y) == (x + y) % SizeMax

Minus(x, y) == (x + SizeMax - y) % SizeMax

\* Transcript::UNDEFINED, the pair (-1, -1).
UNDEFINED == <<Neg(1), Neg(1)>>

\* The texts the parser compares with.
Exon == <<"e", "x", "o", "n">>

StartCodon == <<"s", "t", "a", "r", "t", "_", "c", "o", "d", "o", "n">>

StopCodon == <<"s", "t", "o", "p", "_", "c", "o", "d", "o", "n">>

PlusStrand == <<"+">>

MinusStrand == <<"-">>

TranscriptIdKey ==
  <<"t", "r", "a", "n", "s", "c", "r", "i", "p", "t", "_", "i", "d", " ", "\"">>

Quote == "\""

\* A faulty 5' end that takes the start of the fragment on both strands.
FivePrime_From(strand, from, to) == IF strand THEN from ELSE Neg(from)

\* 'strand ? from : -to': the 5' end of the fragment [from; to], in the
\* coordinates that grow along the transcript.
FivePrime(strand, from, to) == IF strand THEN from ELSE Neg(to)

\* 'strand ? to : -from' of add_exon.
ThreePrime(strand, from, to) == IF strand THEN to ELSE Neg(from)

\* Transcript::Transcript(transcript_id, strand).
Transcript(id, strand) ==
  [id |-> id, strand |-> strand, exons |-> <<>>, start_codon |-> 0,
   stop_codon |-> 0, error |-> FALSE]

\* Transcript::add_exon(from, to).
add_exon(t, from, to) ==
  IF from > to THEN [t EXCEPT !.error = TRUE]
  ELSE IF FivePrime(t.strand, from, to) \in DOMAIN t.exons
    THEN [t EXCEPT !.error = TRUE]
  ELSE [t EXCEPT !.exons = Assign(@, FivePrime(t.strand, from, to),
                                  ThreePrime(t.strand, from, to))]

\* Transcript::check_strand(strand).
check_strand(t, strand) == t.strand = strand

\* Transcript::update_start_codon(from, to).
update_start_codon(t, from, to) ==
  [t EXCEPT !.start_codon =
     IF @ = 0 THEN FivePrime(t.strand, from, to)
     ELSE Min(@, FivePrime(t.strand, from, to))]

\* Transcript::update_stop_codon(from, to).
update_stop_codon(t, from, to) ==
  [t EXCEPT !.stop_codon =
     IF @ = 0 THEN FivePrime(t.strand, from, to)
     ELSE Min(@, FivePrime(t.strand, from, to))]

\* The keys of std::map<size_t, size_t> in the order of its iterator.
RECURSIVE Ascending(_)
Ascending(ks) ==
  IF ks = {} THEN <<>>
  ELSE LET least == CHOOSE k \in ks : \A l \in ks : k <= l
       IN  <<least>> \o Ascending(ks \ {least})

\* The first loop of get_coordinates over the exons from the k-th on: an exon
\* begins at or before the end 'last' of the one before it.
RECURSIVE Overlap(_, _, _, _)
Overlap(exons, keys, k, last) ==
  IF k > Len(keys) THEN FALSE
  ELSE IF last >= keys[k] THEN TRUE
  ELSE Overlap(exons, keys, k + 1, exons[keys[k]])

\* The do-while loop of get_coordinates from the k-th exon on.
RECURSIVE StopWalk(_, _, _, _, _)
StopWalk(t, keys, k, start_position, stop_position) ==
  IF k > Len(keys) THEN UNDEFINED
  ELSE IF t.stop_codon < keys[k] THEN UNDEFINED
  ELSE IF t.stop_codon <= t.exons[keys[k]]
    THEN <<start_position,
           Plus(stop_position, Plus(Minus(t.stop_codon, keys[k]), 1))>>
  ELSE StopWalk(t, keys, k + 1, start_position,
                Plus(stop_position,
                     Plus(Minus(t.exons[keys[k]], keys[k]), 1)))

\* The second loop of get_coordinates from the k-th exon on.
RECURSIVE StartWalk(_, _, _, _)
StartWalk(t, keys, k, start_position) ==
  IF k > Len(keys) THEN UNDEFINED
  ELSE IF t.start_codon < keys[k] THEN UNDEFINED
  ELSE IF t.start_codon <= t.exons[keys[k]]
    THEN StopWalk(t, keys, k,
                  Plus(start_position,
                       Plus(Minus(t.start_codon, keys[k]), 1)),
                  start_position)
  ELSE StartWalk(t, keys, k + 1,
                 Plus(start_position,
                      Plus(Minus(t.exons[keys[k]], keys[k]), 1)))

\* Transcript::get_coordinates().  (It also sets the error flag of the
\* object, which main replaces or destroys right after the call.)
get_coordinates(t) ==
  IF t.error \/ t.id = <<>> THEN UNDEFINED
  ELSE IF t.start_codon = 0 THEN UNDEFINED
  ELSE IF t.stop_codon = 0 THEN UNDEFINED
  ELSE IF t.start_codon > t.stop_codon THEN UNDEFINED
  ELSE IF DOMAIN t.exons = {} THEN UNDEFINED
  ELSE IF Overlap(t.exons, Ascending(DOMAIN t.exons), 1, 0) THEN UNDEFINED
  ELSE StartWalk(t, Ascending(DOMAIN t.exons), 1, 0)

\* What main takes from a line: the type (empty when the line is passed
\* over), start, end, strand and transcript_id, or the exception of stoull.
NoFeature ==
  [type |-> <<>>, start |-> 0, end |-> 0, strand |-> FALSE, id |-> <<>>,
   throws |-> FALSE]

\* Column 9: the text between 'transcript_id "' and the next '"', or nothing.
TranscriptIdOf(part) ==
  LET from == findStr(part, TranscriptIdKey)
      to   == find(part, Quote, from + 15)
  IN  IF from = NPOS THEN <<>>
      ELSE IF to = NPOS THEN <<>>
      ELSE substr(part, from + 15, to - (from + 15))

\* The loop over the nine columns of a line.
ParseGtf(line) ==
  IF line = <<>> THEN NoFeature
  ELSE IF line[1] = "#" THEN NoFeature
  ELSE
    LET parts == GetlineParts(line)
        n     == Len(parts)
    IN  IF n < 3 THEN NoFeature
        ELSE IF parts[3] \notin {Exon, StartCodon, StopCodon} THEN NoFeature
        ELSE IF n < 4 THEN [NoFeature EXCEPT !.type = parts[3]]
        ELSE IF stoullThrows(parts[4]) THEN [NoFeature EXCEPT !.throws = TRUE]
        ELSE IF n < 5
          THEN [NoFeature EXCEPT !.type = parts[3],
                                 !.start = stoull(parts[4])]
        ELSE IF stoullThrows(parts[5]) THEN [NoFeature EXCEPT !.throws = TRUE]
        ELSE
          LET ranged == [NoFeature EXCEPT !.type = parts[3],
                                          !.start = stoull(parts[4]),
                                          !.end = stoull(parts[5])]
          IN  IF n < 7 THEN ranged
              ELSE IF parts[7] \notin {PlusStrand, MinusStrand} THEN NoFeature
              ELSE IF n < 9
                THEN [ranged EXCEPT !.strand = (parts[7] = PlusStrand)]
              ELSE IF TranscriptIdOf(parts[9]) = <<>> THEN NoFeature
              ELSE [ranged EXCEPT !.strand = (parts[7] = PlusStrand),
                                  !.id = TranscriptIdOf(parts[9])]

\* A line of nine columns of the annotation.
GtfLine(type, from, to, strand, id) ==
  JoinTab(<<<<"1">>, <<"G">>, type, to_string(from), to_string(to), <<".">>,
            strand, <<".">>,
            <<"g", "e", "n", "e", "_", "i", "d", " ", "\"", "G", "\"", ";", " ">> \o TranscriptIdKey \o id \o <<Quote, ";">>>>)

\* The line of the fragment [from; to] of the transcript id, where from and
\* to count along the strand: from the left end of the sequence on the
\* forward strand and from the right end, MaxCoord, on the reverse strand.
Along(type, strand, from, to, id) ==
  IF strand THEN GtfLine(type, from, to, PlusStrand, id)
  ELSE GtfLine(type, MaxCoord + 1 - to, MaxCoord + 1 - from, MinusStrand, id)

\* The lines <GTF_file> is made of, for a transcript A of the given strand:
\* two exons, an exon that overlaps both, an exon whose start is after its
\* end, a start codon in each exon, a stop codon in the second exon and one
\* between the exons, an exon of another transcript and an exon of A on the
\* other strand.
GtfFile(strand) ==
  { Along(Exon, strand, 1, 2, IdA),
    Along(Exon, strand, 4, 6, IdA),
    Along(Exon, strand, 2, 4, IdA),
    Along(Exon, strand, 3, 1, IdA),
    Along(StartCodon, strand, 1, 2, IdA),
    Along(StartCodon, strand, 5, 6, IdA),
    Along(StopCodon, strand, 5, 6, IdA),
    Along(StopCodon, strand, 3, 3, IdA),
    Along(Exon, strand, 1, 2, IdB),
    Along(Exon, ~strand, 1, 2, IdA) }

\* What main takes from every line of the model.
Parsed == [line \in GtfFile(TRUE) \cup GtfFile(FALSE) |-> ParseGtf(line)]

\* The calls of lines 246-252 for the feature f.
Feature(t, f) ==
  IF f.type = Exon THEN add_exon(t, f.start, f.end)
  ELSE IF f.type = StartCodon THEN update_start_codon(t, f.start, f.end)
  ELSE update_stop_codon(t, f.start, f.end)

\* The lines written to std::cout for the coordinates cs.
Positions(cs) ==
  LET Defined(id) == cs[id] # UNDEFINED
      ids == SelectSeq(Keys(DOMAIN cs), Defined)
  IN  [n \in 1..Len(ids) |->
         JoinTab(<<ids[n], to_string(cs[ids[n]][1]),
                   to_string(cs[ids[n]][2])>>)]

\* The state of transcripts_startstop_positions after construction.
TspInit ==
  /\ tool = "tsp"
  /\ argc \in 1..3
  /\ idsFile = {}
  /\ transcript_ids = {}
  /\ transcript_gene = <<>>
  /\ pc = "start"
  /\ status = 0
  /\ argi = 0
  /\ input = <<>>
  /\ output = <<>>
  /\ count = 0
  /\ i = 0
  /\ group = <<>>
  /\ primary = -1
  /\ modification = FALSE
  /\ firstGene = <<>>
  /\ unit = NoUnit
  /\ ranges = <<>>
  /\ coefs = <<>>
  /\ missing = {}
  /\ coordinates = <<>>
  /\ transcript = <<>>
  /\ gtf \in {GtfFile(TRUE), GtfFile(FALSE)}

\* main up to the first std::getline: the usage text, or the file is opened
\* and the current transcript is Transcript("", false).
TspStart ==
  /\ pc = "start"
  /\ IF argc # 2
       THEN pc' = "exit" /\ input' = input /\ transcript' = transcript
       ELSE /\ pc' = "gtf"
            /\ input' = <<<<>>>>
            /\ transcript' = Transcript(<<>>, FALSE)
  /\ status' = 0
  /\ UNCHANGED <<tool, argc, idsFile, transcript_ids, transcript_gene, argi,
                 output, count, i, group, primary, modification, firstGene,
                 unit, ranges, coefs, missing, coordinates, gtf>>

\* std::getline(file, line) reads a line: lines 184-255.
TspLine ==
  /\ pc = "gtf"
  /\ Len(input[1]) < MaxGtf
  /\ \E line \in gtf :
       \E f \in {Parsed[line]} :
         /\ input' = [input EXCEPT ![1] = Append(@, line)]
         /\ pc' = (IF f.throws THEN "terminated" ELSE "gtf")
         /\ status' = (IF f.throws THEN 134 ELSE 0)
         /\ IF f.throws \/ f.type = <<>>
              THEN UNCHANGED <<coordinates, transcript>>
            ELSE IF transcript.id # f.id
              THEN /\ coordinates' = Assign(coordinates, transcript.id,
                                            get_coordinates(transcript))
                   /\ transcript' = Feature(Transcript(f.id, f.strand), f)
            ELSE IF ~check_strand(transcript, f.strand)
              THEN UNCHANGED <<coordinates, transcript>>
            ELSE /\ coordinates' = coordinates
                 /\ transcript' = Feature(transcript, f)
  /\ UNCHANGED <<tool, argc, idsFile, transcript_ids, transcript_gene, argi,
                 output, count, i, group, primary, modification, firstGene,
                 unit, ranges, coefs, missing, gtf>>

\* std::getline(file, line) fails: the coordinates of the last transcript
\* are stored, the defined ones are written and main returns 0.
TspEof ==
  /\ pc = "gtf"
  /\ pc' = "exit"
  /\ status' = 0
  /\ coordinates' = (IF transcript.id # <<>>
                       THEN Assign(coordinates, transcript.id,
                                   get_coordinates(transcript))
                       ELSE coordinates)
  /\ output' = <<Positions(coordinates')>>
  /\ UNCHANGED <<tool, argc, idsFile, transcript_ids, transcript_gene, argi,
                 input, count, i, group, primary, modification, firstGene,
                 unit, ranges, coefs, missing, transcript, gtf>>

TspNext ==
  \/ TspStart
  \/ TspLine
  \/ TspEof

TspSpec == TspInit /\ [][TspNext]_vars

----------------------------------------------------------------------------
(* The totals of region_readcounts *)

\* The lines read from <ranges> and from <counts>.
RangesRead == IF Len(input) >= 1 THEN input[1] ELSE <<>>

CountsRead == IF Len(input) >= 2 THEN input[2] ELSE <<>>

\* The columns of every line of the two files.
ColumnsOf == [line \in RangeLines \cup CountLines |-> Columns(line)]

\* The range lines of two or three columns that name id.
Naming(id) ==
  {n \in 1..Len(RangesRead) :
     \E cols \in {ColumnsOf[RangesRead[n]]} :
       Len(cols) \in {2, 3} /\ cols[1] = id}

\* The half-open range [from, to) that <ranges> gives to id, by the last
\* line that names it: 'id from to', or 'id length' for [1, 1 + length).
Given(id) ==
  LET cols == ColumnsOf[RangesRead[CHOOSE n \in Naming(id) :
                                     \A m \in Naming(id) : m <= n]]
  IN  IF Len(cols) = 2 THEN <<1, 1 + DecVal(cols[2])>>
      ELSE <<DecVal(cols[2]), DecVal(cols[3])>>

\* The count lines of three columns that name id with a position in its
\* range.
Counted(id) ==
  IF Naming(id) = {} THEN {}
  ELSE {n \in 1..Len(CountsRead) :
          \E cols \in {ColumnsOf[CountsRead[n]]}, range \in {Given(id)} :
            /\ Len(cols) = 3 /\ cols[1] = id
            /\ range[1] <= DecVal(cols[2])
            /\ DecVal(cols[2]) < range[2]}

\* The sum of the counts of the count lines ns.
RECURSIVE SumOf(_)
SumOf(ns) ==
  IF ns = {} THEN 0
  ELSE LET n == CHOOSE m \in ns : TRUE
       IN  DecVal(ColumnsOf[CountsRead[n]][3]) + SumOf(ns \ {n})

\* The identifiers of the model.
Ids == {IdA, IdB, IdC, IdX}

\* The identifiers with a counted line.
Reported == {id \in Ids : Counted(id) # {}}

\* The first column of the line read last from <counts> is in no range line.
MissingRead ==
  /\ pc' \in {"counts", "terminated"} /\ pc = "counts"
  /\ Len(input'[2]) = Len(input[2]) + 1
  /\ Naming(ColumnsOf[input'[2][Len(input'[2])]][1]) = {}

\* C21: the range of an identifier is the one its last range line gives,
\* [from, to) or [1, 1 + length); while the counts are read, the total of
\* every identifier is the sum of the counts of the count lines that name it
\* with from <= position < to, and identifiers without such a line have no
\* total; at the end one line 'id total' is written for each total and the
\* status is 0, or, when there is no total, nothing is written and the status
\* is 2.  A count line whose identifier is in no range line changes no total
\* and does not end the run.
C21_RangeSemantics ==
  /\ [](tool = "rr" =>
          /\ DOMAIN ranges = {id \in Ids : Naming(id) # {}}
          /\ \A id \in DOMAIN ranges : ranges[id] = Given(id)
          /\ pc \in {"counts", "exit"} =>
               /\ DOMAIN coefs = (IF argc = 3 THEN Reported ELSE {})
               /\ \A id \in DOMAIN coefs : coefs[id] = SumOf(Counted(id))
          /\ (pc = "exit" /\ argc = 3) =>
               /\ status = (IF Reported = {} THEN 2 ELSE 0)
               /\ Len(output[1]) = Cardinality(Reported)
               /\ {output[1][n] : n \in 1..Len(output[1])}
                    = {JoinTab(<<id, to_string(SumOf(Counted(id)))>>) :
                         id \in Reported})
  /\ [][MissingRead => pc' = "counts" /\ status' = 0 /\ coefs' = coefs]_vars

\* The ranges file gave A the length 3, that is [1, 4); the count 2 at
\* position 3 was added, the count 5 at position 4 was not, and 'A 2' was
\* written.
C21_Witness ==
  /\ tool = "rr" /\ pc = "exit" /\ status = 0
  /\ RangesRead = <<JoinTab(<<IdA, <<"3">>>>)>>
  /\ CountsRead = <<JoinTab(<<IdA, <<"3">>, <<"2">>>>),
                    JoinTab(<<IdA, <<"4">>, <<"5">>>>)>>
  /\ output = <<<<JoinTab(<<IdA, <<"2">>>>)>>>>

\* The range of A is [2, 4): the count at position 1 was left out and the
\* counts at positions 2 and 3 were summed.
C21_WitnessSum ==
  /\ tool = "rr" /\ pc = "exit" /\ status = 0
  /\ ranges = (IdA :> <<2, 4>>) /\ Len(CountsRead) = 2
  /\ \E n \in 1..2 : CountsRead[n] = JoinTab(<<IdA, <<"2">>, <<"1">>>>)
  /\ \E n \in 1..2 : CountsRead[n] = JoinTab(<<IdA, <<"3">>, <<"2">>>>)
  /\ output = <<<<JoinTab(<<IdA, <<"3">>>>)>>>>

\* Only a line of an identifier without range was read from <counts>, and
\* the program has returned 2.
C21_WitnessMissing ==
  /\ tool = "rr" /\ pc = "exit" /\ status = 2
  /\ RangesRead # <<>> /\ ranges # <<>>
  /\ CountsRead = <<JoinTab(<<IdX, <<"x">>, <<"1">>>>)>>
  /\ missing = {IdX} /\ output = <<<<>>>>

\* Totals of two identifiers were written.
C21_WitnessTwo ==
  /\ tool = "rr" /\ pc = "exit" /\ status = 0
  /\ Len(output) = 1 /\ Len(output[1]) = 2

----------------------------------------------------------------------------
(* The coordinates of transcripts_startstop_positions *)

\* The lines read from <GTF_file>, and what main took from them.
GtfRead == IF Len(input) >= 1 THEN input[1] ELSE <<>>

Feats == [n \in 1..Len(GtfRead) |-> Parsed[GtfRead[n]]]

\* The transcript id has lines, and they are consecutive.
Given22(id) == \E n \in 1..Len(GtfRead) : Parsed[GtfRead[n]].id = id

Consecutive(id) ==
  \A n, m \in 1..Len(GtfRead) :
    (n < m /\ Parsed[GtfRead[n]].id = id /\ Parsed[GtfRead[m]].id = id)
      => \A k \in n..m : Parsed[GtfRead[k]].id = id

\* The last line of the transcript id among the features fs, and the first
\* line of the run of consecutive lines of id that ends at line last.
LastOf(fs, id) ==
  CHOOSE n \in 1..Len(fs) :
    fs[n].id = id /\ \A m \in n + 1..Len(fs) : fs[m].id # id

FirstOf(fs, id, last) ==
  CHOOSE n \in 1..last :
    /\ \A m \in n..last : fs[m].id = id
    /\ n > 1 => fs[n - 1].id # id

\* The fragments <<start, end, line>> of lines first..last that are on the
\* given strand and of the given type.
Fragments(fs, first, last, strand, type) ==
  {<<fs[n].start, fs[n].end, n>> :
     n \in {m \in first..last : fs[m].strand = strand /\ fs[m].type = type}}

\* The transcript that the last run of lines of id describes: its strand,
\* which is the one of the first line, the lines of the run, and the exons,
\* start codons and stop codons on that strand.
Described(fs, id, first, last) ==
  [strand |-> fs[first].strand,
   first  |-> first,
   last   |-> last,
   exons  |-> Fragments(fs, first, last, fs[first].strand, Exon),
   starts |-> Fragments(fs, first, last, fs[first].strand, StartCodon),
   stops  |-> Fragments(fs, first, last, fs[first].strand, StopCodon)]

DescribedFrom(fs, id, last) ==
  Described(fs, id, FirstOf(fs, id, last), last)

RunOf(id) == DescribedFrom(Feats, id, LastOf(Feats, id))

\* The exonic bases of the transcript r.
Exonic(r) == UNION {e[1]..e[2] : e \in r.exons}

\* The first base of a codon given by the fragments cs in the direction of
\* the transcript: the least start on the forward strand, the greatest end
\* on the reverse strand.
FirstBase(r, cs) ==
  IF r.strand
    THEN CHOOSE b \in {c[1] : c \in cs} : \A c \in cs : b <= c[1]
    ELSE CHOOSE b \in {c[2] : c \in cs} : \A c \in cs : b >= c[2]

\* The number of the bases in ex from the 5' end of the transcript up to and
\* including base b.
Upstream(r, ex, b) ==
  Cardinality({x \in ex : IF r.strand THEN x <= b ELSE x >= b})

\* The errors of a transcript.
Unordered(r) == \E e \in r.exons : e[1] > e[2]

DuplicateStart(r) ==
  \E e, f \in r.exons :
    e[3] # f[3] /\ (IF r.strand THEN e[1] = f[1] ELSE e[2] = f[2])

Overlapping(r) ==
  \E e, f \in r.exons : e[3] # f[3] /\ (e[1]..e[2]) \cap (f[1]..f[2]) # {}

MissingCodon(r) == r.starts = {} \/ r.stops = {}

CodonOutside(r) ==
  \/ FirstBase(r, r.starts) \notin Exonic(r)
  \/ FirstBase(r, r.stops) \notin Exonic(r)

StopBeforeStart(r) ==
  IF r.strand THEN FirstBase(r, r.stops) < FirstBase(r, r.starts)
  ELSE FirstBase(r, r.stops) > FirstBase(r, r.starts)

Flagged(r) ==
  \/ Unordered(r) \/ DuplicateStart(r) \/ Overlapping(r)
  \/ MissingCodon(r)
  \/ CodonOutside(r) \/ StopBeforeStart(r)

\* The positions of the start and of the stop codon of the transcript r.
Expected(r) ==
  <<Upstream(r, Exonic(r), FirstBase(r, r.starts)),
    Upstream(r, Exonic(r), FirstBase(r, r.stops))>>

\* The feature f on the other strand, at the same distance from the other
\* end of the sequence.
Mirrored(f) ==
  [f EXCEPT !.strand = ~f.strand,
            !.start = MaxCoord + 1 - f.end,
            !.end = MaxCoord + 1 - f.start]

\* The Transcript that lines 239-253 build from the mirrored lines n..last.
RECURSIVE MirrorTranscript(_, _, _, _)
MirrorTranscript(fs, t, n, last) ==
  IF n > last THEN t
  ELSE MirrorTranscript(
         fs,
         (IF check_strand(t, ~fs[n].strand)
            THEN Feature(t, Mirrored(fs[n])) ELSE t),
         n + 1, last)

MirrorOf(id, r) ==
  MirrorTranscript(Feats, Transcript(id, ~r.strand), r.first, r.last)

\* The transcripts of the model.
Transcripts == {IdA, IdB}

Written22 == {output[1][n] : n \in 1..Len(output[1])}

\* C22: when transcripts_startstop_positions has ended, every transcript
\* whose lines are consecutive, whose exons are ordered and pairwise
\* disjoint and whose start and stop codon begin inside exons, the start not
\* after the stop, is written with the numbers of exonic bases from its 5'
\* end up to and including the first base of the start codon and of the
\* stop codon, start <= stop; the coordinates stored for a transcript equal
\* those of its mirror image on the other strand; and a transcript with an
\* unordered exon, a duplicate exon start, overlapping exons, a missing
\* codon or a codon outside the exons is not written.  (For a transcript
\* whose lines are not consecutive, the same holds of its last run of
\* lines.)
C22_Coordinates ==
  (tool = "tsp" /\ pc = "exit" /\ argc = 2) =>
    /\ \A line \in Written22 :
         \E id \in Transcripts : Given22(id) /\ line[1] = id[1]
    /\ \A id \in Transcripts :
      Given22(id) =>
        \E r \in {RunOf(id)} :
          /\ coordinates[id] = get_coordinates(MirrorOf(id, r))
          /\ IF Flagged(r)
               THEN /\ coordinates[id] = UNDEFINED
                    /\ \A line \in Written22 : line[1] # id[1]
               ELSE \E e \in {Expected(r)} :
                      /\ coordinates[id] = e
                      /\ 1 <= e[1] /\ e[1] <= e[2]
                      /\ JoinTab(<<id, to_string(e[1]), to_string(e[2])>>)
                           \in Written22
                      /\ \A line \in Written22 :
                           line[1] = id[1]
                             => line = JoinTab(<<id, to_string(e[1]),
                                                 to_string(e[2])>>)

\* A transcript of two exons, [1; 2] and [4; 6] along its strand, with the
\* start codon at the first base and the stop codon at the second base of
\* the second exon, was written as 'A 1 4'.
C22_Reported ==
  /\ tool = "tsp" /\ pc = "exit" /\ Len(GtfRead) = 4
  /\ Given22(IdA) /\ Consecutive(IdA) /\ ~Flagged(RunOf(IdA))
  /\ Cardinality(RunOf(IdA).exons) = 2
  /\ output = <<<<JoinTab(<<IdA, <<"1">>, <<"4">>>>)>>>>

\* ... on the forward strand.
C22_Witness == C22_Reported /\ RunOf(IdA).strand

\* ... on the reverse strand, where the exons are [5; 6] and [1; 3].
C22_WitnessReverse ==
  /\ C22_Reported /\ ~RunOf(IdA).strand
  /\ \E e \in RunOf(IdA).exons : e[1] = 1 /\ e[2] = 3

\* A transcript with an exon, both codons in it and an unordered exon was
\* not written.
C22_WitnessFlagged ==
  /\ tool = "tsp" /\ pc = "exit" /\ Len(GtfRead) = 4
  /\ Given22(IdA) /\ Consecutive(IdA)
  /\ \E r \in {RunOf(IdA)} :
       /\ Unordered(r) /\ ~Overlapping(r)
       /\ ~MissingCodon(r) /\ ~CodonOutside(r)
  /\ output = <<<<>>>>

\* A transcript whose stop codon lies between its exons was not written.
C22_WitnessOutside ==
  /\ tool = "tsp" /\ pc = "exit" /\ Len(GtfRead) = 4
  /\ Given22(IdA) /\ Consecutive(IdA)
  /\ \E r \in {RunOf(IdA)} :
       /\ ~Unordered(r) /\ ~Overlapping(r)
       /\ ~MissingCodon(r) /\ CodonOutside(r)
       /\ Cardinality(r.exons) = 2
  /\ output = <<<<>>>>

----------------------------------------------------------------------------
(* The collection of a group *)

\* The lines read so far from the input of the current pair.
Consumed == input[Len(input)]

\* This step reads a line of the current input.
ReadsLine ==
  /\ Len(input) >= 1 /\ Len(input') = Len(input)
  /\ Len(input'[Len(input)]) = Len(Consumed) + 1

LineRead == input'[Len(input)][Len(Consumed) + 1]

\* The reader is at a group boundary: the unit read last is complete and
\* its lines are the last lines read.
AtBoundary ==
  \/ unit.kind = "none"
  \/ /\ unit.done /\ unit.code = 0
     /\ Len(unit.ins) <= Len(Consumed)
     /\ unit.ins = SubSeq(Consumed, Len(Consumed) - Len(unit.ins) + 1,
                          Len(Consumed))

\* A group of N > 1 was read to its end.
CompleteGroup ==
  unit.kind = "group" /\ unit.n > 1 /\ unit.done /\ unit.code = 0

C23_WitnessHeader ==
  /\ tool = "st" /\ CompleteGroup /\ unit.n = 2 /\ unit.ins[2] = HeaderHD

\* After two complete groups the reader is at a group boundary.
C23_WitnessTwoGroups ==
  /\ pc = "while" /\ CompleteGroup /\ unit.n = 2
  /\ Len(Consumed) = 4 /\ ~MissingNH(Consumed[1]) /\ Count(Consumed[1]) = 2

----------------------------------------------------------------------------
(* The size of a group *)

\* A group was processed to completion.
Completed == unit.kind = "group" /\ unit.done /\ unit.code = 0

\* The group is written as one of which every record survived: line by line
\* as it was read.
AllSurvive == unit.outs = unit.ins

\* The size invariant of the groups that declare N.
SizeInvariant(N) ==
  (Completed /\ unit.n = N) =>
    /\ Len(unit.ins) = N
    /\ Len(unit.kept) = N
    /\ AllSurvive <=> NKept = N

\* C24: for every group processed to completion, the number of records
\* collected equals the multiplicity N that the NH tag of its first record
\* declares, for N = 0 as for every other N, and the group is written as an
\* unchanged whole exactly when the number of records kept equals N.
C24_GroupSizeInvariant == \A N \in 0..MaxLines : SizeInvariant(N)

\* The same of the groups that declare N >= 2.
C24_FromTwo == \A N \in 2..MaxLines : SizeInvariant(N)

\* A record that declares NH:i:0 was a group of its own in
\* select_transcripts: one record was collected and kept, and the rewriter
\* wrote it as a group that has lost records.
C24_Witness ==
  /\ tool = "st" /\ Completed /\ unit.n = 0
  /\ Len(unit.ins) = 1 /\ unit.kept = <<TRUE>>
  /\ unit.rewritten /\ unit.outs # unit.ins /\ Len(unit.outs) = 1

\* filter_reverse_reads wrote such a record as it was read.
C24_WitnessVerbatim ==
  /\ tool = "frr" /\ Completed /\ unit.n = 0
  /\ Len(unit.ins) = 1 /\ unit.outs = unit.ins

\* filter_ambiguous_genes wrote nothing for such a record of a known
\* transcript.
C24_WitnessDropped ==
  /\ tool = "fag" /\ Completed /\ unit.n = 0
  /\ Len(unit.ins) = 1 /\ unit.outs = <<>>

----------------------------------------------------------------------------
(* The line without multiplicity tag *)

\* The lines that are not empty, do not start with '@' and have no column
\* after the first that starts with "NH:i:".
Untagged ==
  {line \in AllLines :
     /\ line # <<>>
     /\ line[1] # "@"
     /\ \A col \in {Columns(line)[n] : n \in 2..Len(Columns(line))} :
          ~StartsWith(col, NHPrefix)}

\* C25: when a filter reads, where a unit may start, a line that is not
\* empty, is no header and has no '<TAB>NH:i:', the step writes nothing to
\* any output, reads no other line, does not end the run, and leaves the
\* filter where the next line read starts a unit.
C25_MissingTag ==
  /\ [][(pc = "while" /\ ReadsLine /\ LineRead \in Untagged) =>
          /\ output' = output
          /\ pc' = "while" /\ status' = 0
          /\ unit'.kind = "notag" /\ unit'.done
          /\ unit'.ins = <<LineRead>> /\ unit'.outs = <<>>
          /\ group' = <<>> /\ primary' = -1 /\ ~modification'
          /\ count' = 0 /\ i' = 0]_vars
  /\ [](unit.kind = "notag" =>
          /\ status = 0 /\ pc \in {"while", "exit"}
          /\ unit.ins[1] \in Untagged)

\* A line without NH tag was passed over, and the record after it was read
\* and written.
C25_Witness ==
  /\ pc = "while" /\ status = 0
  /\ unit.kind = "single" /\ unit.outs = unit.ins
  /\ Len(Consumed) = 2 /\ Consumed[1] \in Untagged
  /\ Current = unit.outs

\* ... in filter_ambiguous_genes, after a header line.
C25_WitnessAmbiguous ==
  /\ tool = "fag" /\ pc = "while" /\ unit.kind = "notag"
  /\ Len(Consumed) = 2 /\ Consumed[1] = HeaderHD /\ Current = <<HeaderHD>>

----------------------------------------------------------------------------
(* Malformed lines *)

\* The empty line, and the lines that are no header and have fewer than the
\* three columns that hold the FLAG and the reference name.
Unusable ==
  {line \in AllLines :
     line = <<>> \/ (line[1] # "@" /\ Len(Columns(line)) < 3)}

\* The step reads an unusable line.
ReadsUnusable ==
  pc \in {"while", "collect"} /\ ReadsLine /\ LineRead \in Unusable

\* The step does not end the run for the line it reads (it may end it with
\* 11 or 12 for the columns of the records kept), and writes no such line.
PassedOver ==
  /\ \/ pc' \in {"while", "collect"} /\ status' = 0
     \/ pc' = "exit" /\ status' \in {11, 12}
  /\ \A n \in 1..Len(output'[Len(output)]) :
       n > Len(Current) => output'[Len(output)][n] # LineRead

\* C26: in each of the three filters, a step that reads an empty line or a
\* record too short to have a FLAG and a reference name, where a unit may
\* start or as a member of a group, does not end the run for it and does not
\* write the line.
C26_MalformedNonFatal == [][ReadsUnusable => PassedOver]_vars

\* The same of filter_reverse_reads and select_transcripts alone.
C26_PerRecord == [][(PerRecord /\ ReadsUnusable) => PassedOver]_vars

\* filter_ambiguous_genes has read an empty line as the second line of a
\* group and has returned 7.
C26_Witness ==
  /\ tool = "fag" /\ pc = "exit" /\ status = 7
  /\ unit.kind = "group" /\ unit.code = 7
  /\ Len(unit.ins) = 2 /\ unit.ins[2] = EmptyLine
  /\ unit.ins[1] \notin Unusable

\* filter_reverse_reads has read an empty line as the second line of a group
\* of three and has written the other two.
C26_WitnessDropped ==
  /\ tool = "frr" /\ pc = "while" /\ status = 0
  /\ unit.kind = "group" /\ unit.done
  /\ Len(unit.ins) = 3 /\ unit.ins[2] = EmptyLine /\ Len(unit.outs) = 2

----------------------------------------------------------------------------
(* The check of the columns before the CIGARs are compared *)

\* Lines of the per-record filters with too few columns for a CIGAR: records
\* of four columns that are no primary and declare 0 or 2, one that is a
\* primary, a record of six columns without tags, and complete records: one
\* that is kept, one that declares 0 and one that the filter drops.
ShortLines(t) ==
  { ShortRec(256, IdA, 0),
    ShortRec(256, IdA, 2),
    ShortRec(0, IdA, 2),
    NoTagRec(256, IdA),
    Rec(256, IdA, CigarM, 2, 1),
    Rec(256, IdA, CigarM, 0, 1),
    Rec(IF t = "frr" THEN 272 ELSE 256, IF t = "frr" THEN IdA ELSE IdC,
        CigarM, 2, 2) }

\* The runs of the per-record filters on one pair of files made of these
\* lines.
ShortInit ==
  /\ Init
  /\ tool \in {"frr", "st"}
  /\ argc = (IF tool = "frr" THEN 3 ELSE 4)

ShortWhileLine == ReadLine(ShortLines(tool))

ShortCollectLine == ReadMember(ShortLines(tool))

ShortNext ==
  \/ Start
  \/ WhileEof
  \/ ShortWhileLine
  \/ CollectEof
  \/ ShortCollectLine

ShortSpec == ShortInit /\ [][ShortNext]_vars

\* A per-record filter has collected a group and has written it or has
\* returned 11 or 12.
Collected ==
  /\ PerRecord /\ unit.kind = "group" /\ unit.done
  /\ unit.code \in {0, 11, 12}

\* The records kept are fewer than the group declares.
Shrank == NKept < unit.n

\* The line has no tab after a sixth column.
Undelimited(line) == Len(Columns(line)) < 7

\* The first record kept that lacks the tab.
FirstUndelimited ==
  Survivors[CHOOSE n \in 1..Len(Survivors) :
              /\ Undelimited(Survivors[n])
              /\ \A m \in 1..n - 1 : ~Undelimited(Survivors[m])]

\* The check of the columns for the groups that declare a number in Ns: the
\* run ends with 11 or 12 exactly when the group shrank, no record kept is a
\* primary and a record kept lacks the tab after its sixth column (12 with
\* fewer than six columns, 11 with six); nothing of the group is written
\* then.
ColumnCheck(Ns) ==
  (Collected /\ unit.n \in Ns) =>
    /\ unit.code \in {11, 12}
         <=> /\ Shrank
             /\ NPrimaries(Survivors) = 0
             /\ \E n \in 1..Len(Survivors) : Undelimited(Survivors[n])
    /\ unit.code \in {11, 12} =>
         /\ pc = "exit" /\ status = unit.code
         /\ Written = <<>> /\ unit.outs = <<>>
         /\ unit.code
              = (IF Len(Columns(FirstUndelimited)) < 6 THEN 12 ELSE 11)

\* C27: the columns of the records kept are checked only when the group
\* shrank and no record kept is a primary; then a record kept that lacks
\* the tab after its sixth column ends the run with 11 or 12 and nothing of
\* the group is written; when a record kept is a primary or the group did
\* not shrink, the run does not end with 11 or 12.
C27_ColumnCheck == ColumnCheck(0..MaxLines)

\* The same of the groups that declare N >= 2.
C27_FromTwo == ColumnCheck(2..MaxLines)

\* select_transcripts has read a record of four columns that declares
\* NH:i:0, has kept it and has returned 12: no record was dropped.
C27_Witness ==
  /\ tool = "st" /\ Collected /\ unit.n = 0 /\ unit.code = 12
  /\ unit.ins = <<ShortRec(256, IdA, 0)>> /\ unit.kept = <<TRUE>>
  /\ pc = "exit" /\ status = 12

\* A group of two lost its second record and the one kept, no primary, has
\* four columns: 12.
C27_WitnessShrank ==
  /\ Collected /\ unit.n = 2 /\ unit.code = 12
  /\ unit.kept = <<TRUE, FALSE>> /\ unit.ins[1] = ShortRec(256, IdA, 2)

\* A group of two whose records are kept was written as read although the
\* first has four columns and neither is a primary.
C27_WitnessNoCheck ==
  /\ Collected /\ unit.n = 2 /\ unit.code = 0
  /\ unit.kept = <<TRUE, TRUE>> /\ unit.ins[1] = ShortRec(256, IdA, 2)
  /\ NPrimaries(unit.ins) = 0 /\ unit.outs = unit.ins

\* filter_reverse_reads has written the record of four columns that
\* declares NH:i:0 as it was read.
C27_WitnessVerbatim ==
  /\ tool = "frr" /\ Collected /\ unit.n = 0 /\ unit.code = 0
  /\ unit.ins = <<ShortRec(256, IdA, 0)>> /\ unit.outs = unit.ins

----------------------------------------------------------------------------
(* The independence of the pairs of files *)

\* The pair p is closed: a later pair was opened, or main has returned 0.
Closed(p) == p < Len(input) \/ (pc = "exit" /\ status = 0)

\* C28: whenever the outer loop is about to read a line, the group buffer,
\* the primary index, the modification flag, the gene of the first record
\* and the loop counters have their initial values, so that nothing is
\* carried from a unit or a pair to the next; the lookup tables are not
\* changed once the first pair is opened; and two pairs of one run whose
\* inputs are the same lines have the same lines in their outputs.
C28_PairIndependence ==
  /\ [](pc = "while" =>
          /\ group = <<>> /\ primary = -1 /\ ~modification
          /\ firstGene = <<>> /\ count = 0 /\ i = 0)
  /\ [][pc # "start" =>
          /\ transcript_ids' = transcript_ids
          /\ transcript_gene' = transcript_gene]_vars
  /\ [](\A p, q \in 1..Len(input) :
          (Closed(p) /\ Closed(q) /\ input[p] = input[q])
            => output[p] = output[q])

\* Two pairs with the same line, a record that is kept, were processed and
\* their outputs are the same line; the lookup table is not empty.
C28_Witness ==
  /\ pc = "exit" /\ status = 0 /\ Len(input) = 2
  /\ input[1] = input[2] /\ Len(input[1]) = 1
  /\ output[1] = output[2] /\ output[1] = input[1]
  /\ unit.kind = "single"
  /\ tool = "st" /\ transcript_ids # {}

----------------------------------------------------------------------------
(* Termination *)

\* Lines of each kind of unit: a header, an empty line, a line without NH
\* tag (filter_ambiguous_genes: a record of an unknown transcript), a record
\* that declares 1, the first record of a group of three and a record that
\* the filter drops (filter_ambiguous_genes: of another gene).
LoopLines(t) ==
  CASE t = "frr" ->
         { HeaderHD, EmptyLine, NoTagRec(256, IdA),
           Rec(256, IdA, CigarI, 1, 3), Rec(256, IdA, CigarM, 3, 2),
           Rec(272, IdA, CigarM, 1, 2) }
    [] t = "st" ->
         { HeaderHD, EmptyLine, NoTagRec(256, IdA),
           Rec(256, IdA, CigarI, 1, 3), Rec(256, IdA, CigarM, 3, 2),
           Rec(256, IdB, CigarM, 1, 2) }
    [] t = "fag" ->
         { HeaderHD, EmptyLine, Rec(256, IdX, CigarM, 2, 2),
           Rec(256, IdB, CigarM, 1, 2), Rec(0, IdA, CigarM, 3, 1),
           Rec(256, IdC, CigarI, 2, 3) }

LoopWhileLine == ReadLine(LoopLines(tool))

LoopCollectLine == ReadMember(LoopLines(tool))

LoopNext ==
  \/ Start
  \/ WhileEof
  \/ LoopWhileLine
  \/ CollectEof
  \/ LoopCollectLine

\* The runs of the three filters on files of these lines, where the program
\* takes its next step whenever it has one.
FairSpec == Init /\ [][LoopNext]_vars /\ WF_vars(LoopNext)

\* The run is over.
Over == pc \in {"exit", "terminated"}

\* The step reads one line, which goes to one unit: it starts a unit as a
\* header, an empty line, a line without tag, a singleton or the first
\* record of a group, or it is a further member of the group collected.
Consumes ==
  /\ ReadsLine
  /\ \A p \in 1..Len(input) - 1 : input'[p] = input[p]
  /\ input'[Len(input)] = Append(Consumed, LineRead)
  /\ unit'.kind \in {"header", "empty", "notag", "single", "group"}
  /\ IF pc = "while" THEN unit'.ins = <<LineRead>>
     ELSE unit'.kind = "group" /\ unit'.ins = Append(unit.ins, LineRead)

\* The step closes the pair at the end of its input and opens the next.
NextPair ==
  /\ pc = "while" /\ pc' = "while"
  /\ input' = Append(input, <<>>) /\ output' = Append(output, <<>>)

\* The step ends the run without reading.
Ends == Over' /\ input' = input

\* C29: every run of a filter on finite inputs comes to its end, by the
\* return of main or by an abort; and every pass of the outer loop and of
\* the collecting loop reads exactly one line of the input, which goes to
\* exactly one unit, or closes the pair, or ends the run.
C29_Termination ==
  /\ <>Over
  /\ [][(pc = "while" \/ pc = "collect")
          => (Consumes \/ NextPair \/ Ends)]_vars
  /\ [][Over => UNCHANGED vars]_vars

\* Two pairs were read to their ends, three lines in all, and main has
\* returned 0.
C29_Witness ==
  /\ pc = "exit" /\ status = 0 /\ Len(input) = 2
  /\ Len(input[1]) + Len(input[2]) = 3

\* The run has ended with 17 in the collecting loop.
C29_WitnessAbort ==
  /\ pc = "exit" /\ status = 17 /\ unit.kind = "group" /\ ~(unit.code = 0)


----------------------------------------------------------------------------
(* The two rewriters *)

\* The variable primary after the loop that collects the group: the index of
\* the last record kept that is a primary, -1 when none is.
PrimaryOf(g) ==
  IF \A n \in 1..Len(g) : ~primary_flag(g[n]) THEN -1
  ELSE (CHOOSE n \in 1..Len(g) :
          /\ primary_flag(g[n])
          /\ \A m \in n + 1..Len(g) : ~primary_flag(g[m])) - 1

\* What filter_reverse_reads does with the records kept of the group: its
\* flag modification is set when a record was not kept.
EmitsFRR ==
  FinishFRR(Survivors, PrimaryOf(Survivors), Len(Survivors) < Len(unit.ins))

\* What select_transcripts does with the same records kept of the same
\* group: it compares their number with the multiplicity declared.
EmitsST == FinishST(Survivors, PrimaryOf(Survivors), unit.n)

\* The tool that runs did with the group what its rewriter does.
Ran ==
  \E f \in {IF tool = "frr" THEN EmitsFRR ELSE EmitsST} :
    /\ f.code = unit.code
    /\ f.lines = unit.outs
    /\ f.rewritten = unit.rewritten

\* The two tools agree on the groups that declare a number in Ns.
Equivalent(Ns) ==
  (Collected /\ unit.n \in Ns) =>
    /\ Ran
    /\ EmitsFRR.code = EmitsST.code
    /\ EmitsFRR.lines = EmitsST.lines

\* C30: for the same complete group, of any declared multiplicity N other
\* than 1 (0 included), and the same records kept, filter_reverse_reads and
\* select_transcripts write exactly the same lines (and return the same
\* status).
C30_RewriterEquivalence == Equivalent(0..MaxLines)

\* The same of the groups that declare N >= 2.
C30_FromTwo == Equivalent(2..MaxLines)

\* A record that declares NH:i:0 is a complete group of which the one record
\* is kept: filter_reverse_reads writes it as read, select_transcripts with
\* NH:i:1 and MAPQ 255.
C30_Witness ==
  /\ Collected /\ unit.n = 0 /\ unit.code = 0
  /\ Len(unit.ins) = 1 /\ unit.kept = <<TRUE>>
  /\ EmitsFRR.lines = unit.ins
  /\ EmitsST.lines # unit.ins /\ Len(EmitsST.lines) = 1
  /\ Ran

\* A group of two that lost a record: both tools rewrite the one kept.
C30_WitnessRewritten ==
  /\ Collected /\ unit.n = 2 /\ unit.code = 0 /\ NKept = 1
  /\ EmitsFRR.rewritten /\ EmitsST.rewritten
  /\ EmitsFRR.lines = EmitsST.lines /\ EmitsFRR.lines = unit.outs
  /\ unit.outs # Survivors

\* A group of two of which both records are kept: both tools write it as
\* read.
C30_WitnessVerbatim ==
  /\ Collected /\ unit.n = 2 /\ unit.code = 0 /\ NKept = 2
  /\ ~EmitsFRR.rewritten /\ ~EmitsST.rewritten
  /\ EmitsFRR.lines = unit.ins /\ EmitsST.lines = unit.ins

====
